---- MODULE Spec2Model ----
(***************************************************************************)
(* Model of the medallion ETL core of raydenrules:                         *)
(*   - silver_processing/nodes.py: calculate_heatwave_flag,                *)
(*     process_region_granules and the helpers they call;                  *)
(*   - bronze_ingestion/nodes.py: create_bronze_manifest and               *)
(*     consolidate_bronze_granules.                                        *)
(* Temperatures are integers in hundredths of a degree Celsius            *)
(* (33.5 C = 3350).                                                        *)
(* A cell of a lst_mean_c column is a tagged value: a number, NaN or None. *)
(***************************************************************************)
EXTENDS Integers, Sequences, FiniteSets, TLC

VARIABLES
    \* --- calculate_heatwave_flag called on a column of means
    means,        \* the lst_mean_c column of df, in row order
    thr,          \* temp_threshold
    cdays,        \* consecutive_days
    hwFlags,      \* the returned Series of flags
    hwPc,         \* "input" before the call, "done" after it
    hwChanged,    \* bookkeeping: the position changed before the last call (0: none)
    hwPrevFlags,  \* bookkeeping: the flags returned by the call before the last
    \* --- the bronze nodes run on one bronze_granules argument
    bArg,         \* the bronze_granules argument
    bCons,        \* what consolidate_bronze_granules did ("pending" before it ran)
    bMan,         \* what create_bronze_manifest did ("pending" before it ran)
    \* --- one call of process_region_granules
    sArg,         \* bronze_granules: the items of the mapping, in key order
    sEnable,      \* enable_download
    sPc,          \* "regions": at line 414; "granules": at line 439; "done"; "raised"
    sR,           \* the position in items of the region being processed
    sG,           \* the position in df of the row being processed
    sRecs,        \* metrics_records of the region being processed
    sOut,         \* processed_regions, in insertion order
    sRun,         \* 1 in the first call on sArg, 2 in a second call on the same sArg
    sPrevOut,     \* what the first call returned, once a second call has started
    \* --- the metric functions called on their own
    mMean,        \* lst_mean_c of calculate_degree_days, urban_temp of calculate_uhi_index
    mBase,        \* base_temp_c
    mDD,          \* <<>> before the call, then <<(cdd, hdd)>>
    mUhi,         \* <<>> before the call, then <<the index>>
    zCol,         \* the lst_mean_c column given to calculate_anomaly_zscore
    zPc,          \* "input" before the call, "done" after it
    zOut,         \* the returned Series of z-scores
    zWin,         \* baseline_window
    zChanged,     \* bookkeeping: the position changed before the last call (0: none)
    zPrev,        \* bookkeeping: the z-scores returned by the call before the last
    \* --- one call of prepare_bronze_granules
    pArg,         \* cmr_discovery_results: the results of the regions, in order
    pOut,         \* "pending" before the call, then the outcome and bronze_data
    \* --- one call of aggregate_region_metrics
    gArg,         \* silver_metrics: the regions' loaded series, in order
    gOut,         \* "pending" before the call, then aggregated_metrics
    \* --- one GET /v1/metrics request
    aReq,         \* the query parameters of the request
    aStore,       \* the gold file of the requested region
    aResp,        \* "pending" before the request is served, then the response
    \* --- calls of download_granule on one output directory
    dFiles,       \* the file <granule_id>.hdf of each granule: absent or its chunks
    dCalls,       \* bookkeeping: the number of calls made
    dRet,         \* "pending" before the first call, then what the last call returned
    \* --- the discovery of one region by discover_lst_data_for_regions
    cSearch,      \* what a CMR search of each product returns for the region's box
    cExpanded,    \* what the MOD11A1 search of the expanded box returns
    cLst,         \* "pending", then the outcome of get_lst_data
    cResult       \* "pending", then the region's entry of the discovery results

heatVars == <<means, thr, cdays, hwFlags, hwPc, hwChanged, hwPrevFlags>>
bronzeVars == <<bArg, bCons, bMan>>
silverVars == <<sArg, sEnable, sPc, sR, sG, sRecs, sOut, sRun, sPrevOut>>
metricVars == <<mMean, mBase, mDD, mUhi, zCol, zPc, zOut, zWin, zChanged, zPrev>>

prepareVars == <<pArg, pOut>>
goldVars == <<gArg, gOut>>
apiVars == <<aReq, aStore, aResp>>
downloadVars == <<dFiles, dCalls, dRet>>
discoveryVars == <<cSearch, cExpanded, cLst, cResult>>

vars == <<heatVars, bronzeVars, silverVars, metricVars, prepareVars, goldVars, apiVars, downloadVars, discoveryVars>>

(***************************************************************************)
(* Values of a lst_mean_c cell                                             *)
(***************************************************************************)
Num(v) == [tag |-> "num", val |-> v]
NaN == [tag |-> "nan", val |-> 0]
None == [tag |-> "none", val |-> 0]

\* Bounds of the model
MaxLen == 4          \* longest column given to calculate_heatwave_flag
MaxDays == 3         \* largest consecutive_days tried
MaxParts == 2        \* most partitions in a bronze_granules mapping
MaxRows == 3         \* most rows in all partitions of a mapping together
MaxDate == 2         \* the calendar days 1..MaxDate
MaxGranules == 3     \* most granules in all regions of a silver run together
MaxEntries == 2      \* most granule entries in all payloads of a discovery together
MaxSeries == 3       \* most records in all series given to aggregate_region_metrics
MaxCalls == 4        \* most calls of download_granule on the directory
MaxRerun == 1        \* most granules in all regions of a run that is repeated

\* Program constants (hundredths of a degree Celsius)
DefaultThreshold == 3200    \* temp_threshold: float = 32.0
DefaultDays == 3            \* consecutive_days: int = 3
DefaultBase == 1800         \* base_temp_c: float = 18.0
DefaultRural == 2000        \* rural_baseline: float = 20.0
ValidMin == 7500            \* valid_range[0], raw units
ValidMax == 65535           \* valid_range[1], raw units
ScaleTimes100 == 2          \* scale_factor = 0.02 Kelvin per raw unit
KelvinOffset == 27315       \* 273.15
BaselineWindow == 30        \* baseline_window: int = 30

\* The readings used: below every threshold, on the higher threshold, above it
HeatTemps == {Num(2000), Num(3300), Num(3350), NaN, None}
Thresholds == {DefaultThreshold, 3300}

SeqsUpTo(S, n) == UNION {[1..k -> S] : k \in 0..n}

(***************************************************************************)
(* calculate_heatwave_flag (silver_processing/nodes.py 313-343)            *)
(***************************************************************************)
\* mutant: "not below the threshold", which NaN and None satisfy
IsHotUnlessBelow(m, temp_threshold) == ~(m.tag = "num" /\ m.val < temp_threshold)

\* df["lst_mean_c"] >= temp_threshold, element-wise: NaN and None compare False
IsHot(m, temp_threshold) == m.tag = "num" /\ m.val >= temp_threshold

\* the for loop over hot_days, from position k with the streak so far
RECURSIVE HeatLoop(_, _, _, _, _)
HeatLoop(hot_days, k, streak, flags, consecutive_days) ==
    IF k > Len(hot_days) THEN flags
    ELSE LET s == IF hot_days[k] THEN streak + 1 ELSE 0
         IN HeatLoop(hot_days, k + 1, s,
                     Append(flags, IF s >= consecutive_days THEN 1 ELSE 0),
                     consecutive_days)

\* mutant: the streak test is strict (streak > consecutive_days)
RECURSIVE HeatLoopStrict(_, _, _, _, _)
HeatLoopStrict(hot_days, k, streak, flags, consecutive_days) ==
    IF k > Len(hot_days) THEN flags
    ELSE LET s == IF hot_days[k] THEN streak + 1 ELSE 0
         IN HeatLoopStrict(hot_days, k + 1, s,
                     Append(flags, IF s > consecutive_days THEN 1 ELSE 0),
                     consecutive_days)

calculate_heatwave_flag_strict(col, temp_threshold, consecutive_days) ==
    LET hot_days == [i \in 1..Len(col) |-> IsHot(col[i], temp_threshold)]
    IN HeatLoopStrict(hot_days, 1, 0, <<>>, consecutive_days)

\* mutant: every day of a run of consecutive_days hot days is flagged,
\* also the first days of the run (the flag looks ahead)
calculate_heatwave_flag_lookahead(col, temp_threshold, consecutive_days) ==
    LET hot(i) == IsHot(col[i], temp_threshold)
        inRun(i) == \E a \in 1..i : \E b \in i..Len(col) :
                        /\ b - a + 1 >= consecutive_days
                        /\ \A j \in a..b : hot(j)
    IN [i \in 1..Len(col) |-> IF inRun(i) THEN 1 ELSE 0]

\* mutant: a record without a mean is flagged 0 but leaves the streak as it is
RECURSIVE HeatLoopSkipNull(_, _, _, _, _, _)
HeatLoopSkipNull(col, hot_days, k, streak, flags, consecutive_days) ==
    IF k > Len(hot_days) THEN flags
    ELSE IF col[k].tag # "num"
    THEN HeatLoopSkipNull(col, hot_days, k + 1, streak, Append(flags, 0), consecutive_days)
    ELSE LET s == IF hot_days[k] THEN streak + 1 ELSE 0
         IN HeatLoopSkipNull(col, hot_days, k + 1, s,
                     Append(flags, IF s >= consecutive_days THEN 1 ELSE 0),
                     consecutive_days)

calculate_heatwave_flag_skipnull(col, temp_threshold, consecutive_days) ==
    LET hot_days == [i \in 1..Len(col) |-> IsHot(col[i], temp_threshold)]
    IN HeatLoopSkipNull(col, hot_days, 1, 0, <<>>, consecutive_days)

\* mutant: the streak starts again after a flagged day
RECURSIVE HeatLoopRestart(_, _, _, _, _)
HeatLoopRestart(hot_days, k, streak, flags, consecutive_days) ==
    IF k > Len(hot_days) THEN flags
    ELSE LET s == IF hot_days[k] THEN streak + 1 ELSE 0
         IN HeatLoopRestart(hot_days, k + 1,
                     IF s >= consecutive_days THEN 0 ELSE s,
                     Append(flags, IF s >= consecutive_days THEN 1 ELSE 0),
                     consecutive_days)

calculate_heatwave_flag_restart(col, temp_threshold, consecutive_days) ==
    LET hot_days == [i \in 1..Len(col) |-> IsHot(col[i], temp_threshold)]
    IN HeatLoopRestart(hot_days, 1, 0, <<>>, consecutive_days)

calculate_heatwave_flag(col, temp_threshold, consecutive_days) ==
    LET hot_days == [i \in 1..Len(col) |-> IsHot(col[i], temp_threshold)]
    IN HeatLoop(hot_days, 1, 0, <<>>, consecutive_days)

(***************************************************************************)
(* Bronze tables and partitions (bronze_ingestion/nodes.py)                *)
(* A table is its set of columns and its rows; a row carries the region_id *)
(* and date that prepare_bronze_granules gives it (lines 64-85).           *)
(* region_id values are numbers so that they can be ordered.               *)
(***************************************************************************)
AllColumns == {"region_id", "date", "granule_id", "cloud_cover", "product"}
BronzeDates == 1..MaxDate

NoColsTable == [cols |-> {}, rows |-> <<>>]          \* pd.DataFrame()

TableOf(key, ds, gs, columns) ==
    [cols |-> columns,
     rows |-> [i \in 1..Len(ds) |->
                  [region_id |-> key, date |-> ds[i], granule_id |-> gs[i]]]]

\* the granule ids of a table of n rows: all different, or one granule
\* listed n times
GranuleIdsOf(n) == {[i \in 1..n |-> i], [i \in 1..n |-> 1]}

\* tables of exactly n rows for the partition of region key: well-formed
\* ones, and a one-row table that lacks the cloud_cover column
TablesOfSize(key, n) ==
    {TableOf(key, ds, gs, AllColumns) : ds \in [1..n -> BronzeDates], gs \in GranuleIdsOf(n)}
    \cup (IF n = 0 THEN {NoColsTable} ELSE {})
    \cup (IF n = 1 THEN {TableOf(key, <<1>>, <<1>>, AllColumns \ {"cloud_cover"})} ELSE {})

\* a partition value: a DataFrame, another object, or a lazy loader (a
\* callable) that returns a DataFrame, returns another object, or raises
ValuesOfSize(key, n) ==
    {[kind |-> k, table |-> t] : k \in {"df", "lazy_df"}, t \in TablesOfSize(key, n)}
    \cup (IF n = 0
          THEN {[kind |-> k, table |-> NoColsTable] : k \in {"obj", "lazy_obj", "lazy_raise"}}
          ELSE {})

RECURSIVE SumSeq(_)
SumSeq(s) == IF s = <<>> THEN 0 ELSE s[1] + SumSeq(Tail(s))

\* the orders in which a mapping of n partitions can list its keys
KeyOrders(n) == {ks \in [1..n -> 1..n] : \A i, j \in 1..n : i # j => ks[i] # ks[j]}
RowCounts(n) == {c \in [1..n -> 0..MaxRows] : SumSeq(c) <= MaxRows}

RECURSIVE ItemSeqs(_, _, _)
ItemSeqs(ks, c, k) ==
    IF k = 0 THEN {<<>>}
    ELSE {Append(front, [key |-> ks[k], value |-> v]) :
              front \in ItemSeqs(ks, c, k - 1), v \in ValuesOfSize(ks[k], c[k])}

\* the mappings of n partitions: a dict, or what PartitionedDataset.load() gives
MappingsOf(n, ks, c) ==
    {[kind |-> "mapping", truthy |-> n > 0, items |-> it] : it \in ItemSeqs(ks, c, n)}

\* arguments that are no mapping: None, [], a list of one DataFrame, 0, 5
NonMappings ==
    {[kind |-> "none", truthy |-> FALSE, items |-> <<>>],
     [kind |-> "list", truthy |-> FALSE, items |-> <<>>],
     [kind |-> "list", truthy |-> TRUE,
      items |-> <<[key |-> 1, value |-> [kind |-> "df", table |-> TableOf(1, <<1>>, <<1>>, AllColumns)]]>>],
     [kind |-> "scalar", truthy |-> FALSE, items |-> <<>>],
     [kind |-> "scalar", truthy |-> TRUE, items |-> <<>>]}

\* hasattr(bronze_granules, "keys")
HasKeys(arg) == arg.kind = "mapping"

\* callable(value)
IsCallable(v) == v.kind \in {"lazy_df", "lazy_obj", "lazy_raise"}
\* value() raises
CallRaises(v) == v.kind = "lazy_raise"
\* isinstance(df, pd.DataFrame), for df the value or what the loader returns
IsDataFrame(v) == v.kind \in {"df", "lazy_df"}
\* df.empty: no rows or no columns
IsEmpty(t) == t.rows = <<>> \/ t.cols = {}

(***************************************************************************)
(* consolidated.sort_values(["region_id", "date"]) (line 222): a stable    *)
(* sort on the two keys                                                    *)
(***************************************************************************)
RowLeq(a, b) ==
    \/ a.region_id < b.region_id
    \/ a.region_id = b.region_id /\ a.date <= b.date

RECURSIVE InsertRow(_, _)
InsertRow(sorted, r) ==
    IF sorted = <<>> THEN <<r>>
    ELSE IF RowLeq(sorted[Len(sorted)], r) THEN Append(sorted, r)
    ELSE Append(InsertRow(SubSeq(sorted, 1, Len(sorted) - 1), r), sorted[Len(sorted)])

RECURSIVE SortRows(_)
SortRows(rows) ==
    IF rows = <<>> THEN <<>>
    ELSE InsertRow(SortRows(SubSeq(rows, 1, Len(rows) - 1)), rows[Len(rows)])

\* mutant: the sort step is left out
NoSortValues(rows) == rows

sort_values(rows) == SortRows(rows)

\* pd.concat(granule_dfs, ignore_index=True) (line 219)
RECURSIVE ConcatRows(_)
ConcatRows(dfs) ==
    IF dfs = <<>> THEN <<>> ELSE dfs[1].table.rows \o ConcatRows(Tail(dfs))

ConcatCols(dfs) == UNION {dfs[i].table.cols : i \in 1..Len(dfs)}

(***************************************************************************)
(* consolidate_bronze_granules (lines 168-233)                             *)
(* The result records the outcome ("returned" or "raised"), the returned   *)
(* table, how often each partition's loader was called, and the counts the *)
(* two logger.info lines 195 and 211 print (<<>> when a line is not        *)
(* reached).                                                               *)
(***************************************************************************)
\* lines 199-204: the loaders are called in order until one raises
FirstRaise(vals) ==
    LET bad == {i \in 1..Len(vals) : CallRaises(vals[i])}
    IN IF bad = {} THEN 0 ELSE CHOOSE i \in bad : \A j \in bad : i <= j

LoaderCalls(vals, stop) ==
    [i \in 1..Len(vals) |->
        IF IsCallable(vals[i]) /\ (stop = 0 \/ i <= stop) THEN 1 ELSE 0]

consolidate_bronze_granules(arg) ==
    LET vals == [i \in 1..Len(arg.items) |-> arg.items[i].value]
        none == [i \in 1..Len(arg.items) |-> 0]
    IN
    IF ~arg.truthy                                         \* lines 180-182
    THEN [outcome |-> "returned", rows |-> <<>>, cols |-> {},
          calls |-> none, found |-> <<>>, valid |-> <<>>]
    ELSE IF ~HasKeys(arg)                                  \* line 193: no .values()
    THEN [outcome |-> "raised", rows |-> <<>>, cols |-> {},
          calls |-> none, found |-> <<>>, valid |-> <<>>]
    ELSE LET stop == FirstRaise(vals)
             granule_dfs == SelectSeq(vals, IsDataFrame)   \* line 209
         IN
         IF stop > 0                                       \* line 202 raises, 230-233
         THEN [outcome |-> "raised", rows |-> <<>>, cols |-> {},
               calls |-> LoaderCalls(vals, stop),
               found |-> <<Len(vals)>>, valid |-> <<>>]
         ELSE IF granule_dfs = <<>>                        \* lines 213-216
         THEN [outcome |-> "returned", rows |-> <<>>, cols |-> {},
               calls |-> LoaderCalls(vals, 0),
               found |-> <<Len(vals)>>, valid |-> <<0>>]
         ELSE IF ~({"region_id", "date"} \subseteq ConcatCols(granule_dfs))
         THEN [outcome |-> "raised", rows |-> <<>>, cols |-> {},   \* line 222: KeyError
               calls |-> LoaderCalls(vals, 0),
               found |-> <<Len(vals)>>, valid |-> <<Len(granule_dfs)>>]
         ELSE [outcome |-> "returned",
               rows |-> sort_values(ConcatRows(granule_dfs)),
               cols |-> ConcatCols(granule_dfs),
               calls |-> LoaderCalls(vals, 0),
               found |-> <<Len(vals)>>, valid |-> <<Len(granule_dfs)>>]

(***************************************************************************)
(* create_bronze_manifest (lines 94-165)                                   *)
(***************************************************************************)
MinDate(rows) == CHOOSE d \in {rows[i].date : i \in 1..Len(rows)} :
                    \A i \in 1..Len(rows) : d <= rows[i].date
MaxDateOf(rows) == CHOOSE d \in {rows[i].date : i \in 1..Len(rows)} :
                    \A i \in 1..Len(rows) : d >= rows[i].date

\* the columns the record of lines 143-153 reads without a guard
ManifestColumns == {"date", "cloud_cover", "granule_id"}

\* lines 143-153; str() of a date names the same day
ManifestRecord(region_id, df) ==
    [region_id |-> region_id,
     record_count |-> Len(df.rows),
     date_min |-> MinDate(df.rows),
     date_max |-> MaxDateOf(df.rows),
     granule_count |-> Cardinality({df.rows[i].granule_id : i \in 1..Len(df.rows)})]

\* the for loop of lines 126-154 from item k on; an exception raised in it
\* is caught at line 155, outside the loop, and ends the loop
RECURSIVE ManifestLoop(_, _, _, _)
ManifestLoop(items, k, manifest_records, calls) ==
    IF k > Len(items) THEN [records |-> manifest_records, calls |-> calls]
    ELSE LET value == items[k].value
             called == IF IsCallable(value) THEN [calls EXCEPT ![k] = @ + 1] ELSE calls
         IN
         IF CallRaises(value)                               \* line 130 raises
         THEN [records |-> manifest_records, calls |-> called]
         ELSE IF ~IsDataFrame(value) \/ IsEmpty(value.table)      \* lines 135-141
         THEN ManifestLoop(items, k + 1, manifest_records, called)
         ELSE IF ~(ManifestColumns \subseteq value.table.cols)    \* KeyError
         THEN [records |-> manifest_records, calls |-> called]
         ELSE ManifestLoop(items, k + 1,
                  Append(manifest_records, ManifestRecord(items[k].key, value.table)),
                  called)

create_bronze_manifest(arg) ==
    LET none == [i \in 1..Len(arg.items) |-> 0]
    IN
    IF ~HasKeys(arg)
    THEN \* line 122: a falsy argument gives no items; .items() raises on a
         \* truthy one, which line 155 catches
         [outcome |-> "returned", manifest |-> <<>>, calls |-> none,
          found |-> IF arg.truthy THEN <<>> ELSE <<0>>, entries |-> <<0>>]
    ELSE LET r == ManifestLoop(arg.items, 1, <<>>, none)
         IN [outcome |-> "returned", manifest |-> r.records, calls |-> r.calls,
             found |-> <<Len(arg.items)>>, entries |-> <<Len(r.records)>>]

Pending == [outcome |-> "pending"]

\* the bronze nodes are not running
BronzeIdle ==
    /\ bArg = [kind |-> "none", truthy |-> FALSE, items |-> <<>>]
    /\ bCons = Pending
    /\ bMan = Pending

(***************************************************************************)
(* Silver layer helpers (silver_processing/nodes.py)                       *)
(***************************************************************************)
\* a link of a granule: whether href starts with https://, holds
\* "data.lpdaac", ends with .hdf
Link(https, lpdaac, hdf) == [https |-> https, lpdaac |-> lpdaac, hdf |-> hdf]
BrowseLink == Link(TRUE, TRUE, FALSE)
DataLink == Link(TRUE, TRUE, TRUE)
\* the links of a granule: a browse image only, or a browse image and the data
LinkLists == {<<BrowseLink>>, <<BrowseLink, DataLink>>}

\* get_download_url (lines 54-73): the first link that qualifies, as a
\* sequence of at most one link
get_download_url(row) ==
    LET ok == {k \in 1..Len(row.links) :
                  row.links[k].https /\ row.links[k].lpdaac /\ row.links[k].hdf}
    IN IF ok = {} THEN <<>> ELSE <<row.links[CHOOSE k \in ok : \A j \in ok : k <= j]>>

\* what the file of a granule holds when it is read: whether the file opens,
\* whether it has the LST_Day_1km subdataset, and the raw pixels of the window
Tile(opens, sub, pixels) == [opens |-> opens, subdataset |-> sub, pixels |-> pixels]
Tiles ==
    {Tile(FALSE, FALSE, <<>>),            \* cannot be opened
     Tile(TRUE, FALSE, <<>>),             \* no LST subdataset
     Tile(TRUE, TRUE, <<0, 7499>>),       \* fill values only: no valid pixel
     Tile(TRUE, TRUE, <<0, 14000>>),      \* 6.85 C
     Tile(TRUE, TRUE, <<15300, 15300>>)}  \* 32.85 C

RawToCelsius(raw) == raw * ScaleTimes100 - KelvinOffset

RECURSIVE SeqMin(_)
SeqMin(q) == IF Len(q) = 1 THEN q[1]
             ELSE LET m == SeqMin(Tail(q)) IN IF q[1] < m THEN q[1] ELSE m
RECURSIVE SeqMax(_)
SeqMax(q) == IF Len(q) = 1 THEN q[1]
             ELSE LET m == SeqMax(Tail(q)) IN IF q[1] > m THEN q[1] ELSE m

IsValidRaw(raw) == raw >= ValidMin /\ raw <= ValidMax

\* extract_lst_from_hdf (lines 225-294) and its GDAL fallback (121-222):
\* the statistics, or ok = FALSE for the None they return
extract_lst_from_hdf(tile) ==
    LET valid_data == SelectSeq(tile.pixels, IsValidRaw)
        valid_data_c == [k \in 1..Len(valid_data) |-> RawToCelsius(valid_data[k])]
        failed == [ok |-> FALSE, lst_mean_c |-> 0, lst_min_c |-> 0, lst_max_c |-> 0]
    IN IF ~tile.opens \/ ~tile.subdataset THEN failed      \* lines 292-294, 155-157
       ELSE IF valid_data = <<>> THEN failed               \* lines 275-277
       ELSE [ok |-> TRUE,
             lst_mean_c |-> SumSeq(valid_data_c) \div Len(valid_data_c),
             lst_min_c |-> SeqMin(valid_data_c),
             lst_max_c |-> SeqMax(valid_data_c)]

\* float subtraction: NaN when an operand is NaN
FSub(a, b) == IF a.tag = "num" /\ b.tag = "num" THEN Num(a.val - b.val) ELSE NaN
\* float a > b: False when an operand is NaN
FGt(a, b) == a.tag = "num" /\ b.tag = "num" /\ a.val > b.val

\* Python's max(a, b): b when b > a, else a
PyMax(a, b) == IF FGt(b, a) THEN b ELSE a

\* mutant: the differences are not clamped at 0
calculate_degree_days_unclamped(lst_mean_c, base_temp_c) ==
    <<FSub(lst_mean_c, base_temp_c), FSub(base_temp_c, lst_mean_c)>>

\* calculate_degree_days (lines 297-310): <<cdd, hdd>>
calculate_degree_days(lst_mean_c, base_temp_c) ==
    <<PyMax(Num(0), FSub(lst_mean_c, base_temp_c)),
      PyMax(Num(0), FSub(base_temp_c, lst_mean_c))>>

\* calculate_uhi_index (lines 370-381)
calculate_uhi_index(urban_temp, rural_baseline) == FSub(urban_temp, rural_baseline)

(***************************************************************************)
(* calculate_anomaly_zscore (lines 346-367)                                *)
(* A z-score is kept in hundredths, the precision line 546-548 rounds it   *)
(* to. With n observations x_j in the window, S their sum and              *)
(* dev_j = n*x_j - S:  z_i = dev_i * sqrt(n-1) / sqrt(sum of dev_j^2).     *)
(***************************************************************************)
RECURSIVE Gcd(_, _)
Gcd(a, b) == IF b = 0 THEN a ELSE Gcd(b, a % b)

\* round(100 * sqrt(a / b)) for a >= 0 and b > 0, at most 100 * n
RoundedRoot(a, b, n) ==
    LET g == Gcd(a, b)
        p == a \div g
        q == b \div g
    IN CHOOSE k \in 0..(100 * n) :
           /\ k = 0 \/ (2 * k - 1) * (2 * k - 1) * q <= 40000 * p
           /\ 40000 * p < (2 * k + 1) * (2 * k + 1) * q

\* the trailing window ending at i: rolling(window=baseline_window, min_periods=1)
WindowStart(i, baseline_window) ==
    IF i - baseline_window + 1 > 1 THEN i - baseline_window + 1 ELSE 1

\* lines 358-365 for the record at i, with the observations at lo..hi
ZscoreAt(col, i, lo, hi) ==
    LET seen(j) == j >= lo /\ col[j].tag = "num"         \* NaN is no observation
        n == Cardinality({j \in 1..hi : seen(j)})
        S == SumSeq([j \in 1..hi |-> IF seen(j) THEN col[j].val ELSE 0])
        dev(j) == n * col[j].val - S
        B == SumSeq([j \in 1..hi |-> IF seen(j) THEN dev(j) * dev(j) ELSE 0])
    IN IF col[i].tag # "num" THEN NaN                    \* NaN - mean
       ELSE IF n < 2 THEN NaN           \* the std of one observation is NaN
       ELSE IF B = 0 THEN Num(dev(i) \div n)      \* line 362: std 0 replaced by 1
       ELSE IF dev(i) >= 0
       THEN Num(RoundedRoot(dev(i) * dev(i) * (n - 1), B, n))
       ELSE Num(0 - RoundedRoot(dev(i) * dev(i) * (n - 1), B, n))

\* mutant: the mean and the std are those of the whole column
calculate_anomaly_zscore_global(col, baseline_window) ==
    [i \in 1..Len(col) |-> ZscoreAt(col, i, 1, Len(col))]

calculate_anomaly_zscore(col, baseline_window) ==
    [i \in 1..Len(col) |-> ZscoreAt(col, i, WindowStart(i, baseline_window), i)]

\* 20 + np.random.uniform(-5, 10), rounded to 2 digits: 15.00 .. 30.00
MockTemps == {1500, 3000}

(***************************************************************************)
(* The body of the loop over the rows of a region (lines 439-530)          *)
(* env is what the outside world does for this granule: whether the        *)
(* download succeeds, what the file holds, what the random generator draws.*)
(* The field cause is bookkeeping: the branch that built the record.       *)
(***************************************************************************)
\* mutant: a failed granule gets degree days of 0
FailedFieldsZeroDD(cause) ==
    [lst_mean_c |-> None, lst_min_c |-> None, lst_max_c |-> None,
     cdd |-> Num(0), hdd |-> Num(0), uhi_index |-> None, cause |-> cause]

FailedFields(cause) ==
    [lst_mean_c |-> None, lst_min_c |-> None, lst_max_c |-> None,
     cdd |-> None, hdd |-> None, uhi_index |-> None, cause |-> cause]

MetricFields(mean, min, max, cause) ==
    LET dd == calculate_degree_days(Num(mean), Num(DefaultBase))
    IN [lst_mean_c |-> Num(mean), lst_min_c |-> Num(min), lst_max_c |-> Num(max),
        cdd |-> dd[1], hdd |-> dd[2],
        uhi_index |-> calculate_uhi_index(Num(mean), Num(DefaultRural)), cause |-> cause]

\* lines 451-520
GranuleMetrics(row, enable_download, env) ==
    IF enable_download
    THEN IF get_download_url(row) = <<>>
         THEN FailedFields("no_url")                              \* lines 497-508
         ELSE IF ~env.download_ok
         THEN FailedFields("download_failed")                     \* lines 485-496
         ELSE LET lst_stats == extract_lst_from_hdf(env.tile)
              IN IF lst_stats.ok
                 THEN MetricFields(lst_stats.lst_mean_c, lst_stats.lst_min_c,
                                   lst_stats.lst_max_c, "extracted")
                 ELSE FailedFields("extract_failed")              \* lines 473-484
    ELSE MetricFields(env.mock_temp, env.mock_temp - 300, env.mock_temp + 300, "mock")

\* mutant: a failed extraction leaves the fields of the record unset and the
\* record is not kept (the placeholders of lines 474-484 are missing)
GranuleRecordsDropFailed(row, enable_download, env) ==
    LET m == GranuleMetrics(row, enable_download, env)
    IN IF m.lst_mean_c = None /\ m.cause = "extract_failed"
       THEN <<>>
       ELSE <<[region_id |-> row.region_id, date |-> row.date,
               granule_id |-> row.granule_id,
               lst_mean_c |-> m.lst_mean_c, lst_min_c |-> m.lst_min_c,
               lst_max_c |-> m.lst_max_c, cdd |-> m.cdd, hdd |-> m.hdd,
               uhi_index |-> m.uhi_index, heatwave_flag |-> 0,
               anomaly_zscore |-> Num(0),
               processing_status |-> "processed", cause |-> m.cause]>>

\* lines 440-449 and 522-530: the records this row adds to metrics_records
GranuleRecords(row, enable_download, env) ==
    LET m == GranuleMetrics(row, enable_download, env)
    IN <<[region_id |-> row.region_id, date |-> row.date,
          granule_id |-> row.granule_id,
          lst_mean_c |-> m.lst_mean_c, lst_min_c |-> m.lst_min_c,
          lst_max_c |-> m.lst_max_c, cdd |-> m.cdd, hdd |-> m.hdd,
          uhi_index |-> m.uhi_index, heatwave_flag |-> 0,
               anomaly_zscore |-> Num(0),
          processing_status |->
              IF m.lst_mean_c # None THEN "processed" ELSE "failed",
          cause |-> m.cause]>>

\* mutant: the records stay in the order of the bronze rows
UnsortedByDate(recs) == {recs}

\* metrics_df.sort_values("date") (line 538): some ordering of the records by
\* date; the order of records of one date is whatever the sort leaves
SortedByDate(recs) ==
    {[k \in 1..Len(recs) |-> recs[p[k]]] :
        p \in {q \in [1..Len(recs) -> 1..Len(recs)] :
                  /\ \A i, j \in 1..Len(recs) : i # j => q[i] # q[j]
                  /\ \A i \in 1..(Len(recs) - 1) : recs[q[i]].date <= recs[q[i + 1]].date}}

\* mutant: the streak of the regions stored before runs on into this region
WithHeatwaveFlagsCarried(sorted) ==
    LET before == [k \in 1..Len(sOut) |-> [kind |-> "df", table |-> [rows |-> sOut[k].table]]]
        all == ConcatRows(before) \o sorted
        flags == calculate_heatwave_flag([k \in 1..Len(all) |-> all[k].lst_mean_c],
                                         DefaultThreshold, DefaultDays)
        skip == Len(all) - Len(sorted)
    IN [k \in 1..Len(sorted) |-> [sorted[k] EXCEPT !.heatwave_flag = flags[skip + k]]]

\* lines 536-541: the heatwave flags of the sorted records
WithHeatwaveFlags(sorted) ==
    LET flags == calculate_heatwave_flag([k \in 1..Len(sorted) |-> sorted[k].lst_mean_c],
                                         DefaultThreshold, DefaultDays)
    IN [k \in 1..Len(sorted) |-> [sorted[k] EXCEPT !.heatwave_flag = flags[k]]]

\* lines 543-548: the anomaly z-scores of the sorted records, rounded
WithAnomalyZscore(sorted) ==
    LET z == calculate_anomaly_zscore([k \in 1..Len(sorted) |-> sorted[k].lst_mean_c],
                                      BaselineWindow)
    IN [k \in 1..Len(sorted) |-> [sorted[k] EXCEPT !.anomaly_zscore = z[k]]]

(***************************************************************************)
(* The bronze tables process_region_granules reads                         *)
(***************************************************************************)
SilverDates == {1, 2}
SilverKeys == <<1, 2>>

SilverTablesOfSize(key, n) ==
    IF n = 0 THEN {NoColsTable}
    ELSE {[cols |-> AllColumns,
           rows |-> [i \in 1..n |-> [region_id |-> key, granule_id |-> i,
                                     date |-> ds[i], links |-> ls[i]]]] :
             ds \in [1..n -> SilverDates], ls \in [1..n -> LinkLists]}

\* the partitions of bronze_granules_partitioned are lazy loaders; a value
\* that is no loader and no DataFrame stands for every other mapping value
SilverValuesOfSize(key, n) ==
    {[kind |-> "lazy_df", table |-> t] : t \in SilverTablesOfSize(key, n)}
    \cup (IF n = 0
          THEN {[kind |-> k, table |-> NoColsTable] : k \in {"obj", "lazy_raise"}}
          ELSE {})

SilverItems(c) ==
    {<<[key |-> SilverKeys[1], value |-> v1], [key |-> SilverKeys[2], value |-> v2]>> :
        v1 \in SilverValuesOfSize(SilverKeys[1], c[1]),
        v2 \in SilverValuesOfSize(SilverKeys[2], c[2])}

SilverEnvs ==
    {[download_ok |-> d, tile |-> t, mock_temp |-> m] :
        d \in BOOLEAN, t \in Tiles, m \in MockTemps}

\* process_region_granules is not running
SilverIdle ==
    /\ sArg = <<>> /\ sEnable = FALSE /\ sPc = "idle"
    /\ sR = 0 /\ sG = 0 /\ sRecs = <<>> /\ sOut = <<>>
    /\ sRun = 0 /\ sPrevOut = <<>>

HeatIdle ==
    /\ means = <<>> /\ thr = DefaultThreshold /\ cdays = DefaultDays
    /\ hwFlags = <<>> /\ hwPc = "idle" /\ hwChanged = 0 /\ hwPrevFlags = <<>>

\* no region is being discovered
DiscoveryIdle == cSearch = <<>> /\ cExpanded = <<>> /\ cLst = Pending /\ cResult = Pending

\* download_granule is not called
DownloadIdle == dFiles = <<>> /\ dCalls = 0 /\ dRet = Pending

\* no request is being served
ApiIdle == aReq = <<>> /\ aStore = <<>> /\ aResp = Pending

\* aggregate_region_metrics is not running
GoldIdle == gArg = <<>> /\ gOut = Pending

\* prepare_bronze_granules is not running
PrepareIdle == pArg = <<>> /\ pOut = Pending

\* the metric functions are not called on their own
MetricIdle ==
    /\ mMean = NaN /\ mBase = Num(DefaultBase) /\ mDD = <<>> /\ mUhi = <<>>
    /\ zCol = <<>> /\ zPc = "idle" /\ zOut = <<>>
    /\ zWin = BaselineWindow /\ zChanged = 0 /\ zPrev = <<>>

(***************************************************************************)
(* Specification SpecHeat: calculate_heatwave_flag on every short column   *)
(***************************************************************************)
HeatInit ==
    /\ means \in SeqsUpTo(HeatTemps, MaxLen)
    /\ thr \in Thresholds
    /\ cdays \in 1..MaxDays
    /\ hwFlags = <<>>
    /\ hwPc = "input"
    /\ hwChanged = 0
    /\ hwPrevFlags = <<>>
    /\ BronzeIdle
    /\ SilverIdle
    /\ MetricIdle
    /\ PrepareIdle
    /\ GoldIdle
    /\ ApiIdle
    /\ DownloadIdle
    /\ DiscoveryIdle

\* the caller runs calculate_heatwave_flag(df, thr, cdays)
FlagSeries ==
    /\ hwPc = "input"
    /\ hwFlags' = calculate_heatwave_flag(means, thr, cdays)
    /\ hwPc' = "done"
    /\ UNCHANGED <<means, thr, cdays, hwChanged, hwPrevFlags>>
    /\ UNCHANGED <<bronzeVars, silverVars, metricVars, prepareVars, goldVars, apiVars, downloadVars, discoveryVars>>

\* the caller runs it again on a column that differs in one position j
ReflagChanged ==
    /\ hwPc = "done"
    /\ \E j \in 1..Len(means) : \E v \in HeatTemps \ {means[j]} :
          /\ means' = [means EXCEPT ![j] = v]
          /\ hwFlags' = calculate_heatwave_flag(means', thr, cdays)
          /\ hwChanged' = j
          /\ hwPrevFlags' = hwFlags
    /\ UNCHANGED <<thr, cdays, hwPc>>
    /\ UNCHANGED <<bronzeVars, silverVars, metricVars, prepareVars, goldVars, apiVars, downloadVars, discoveryVars>>

HeatNext == FlagSeries \/ ReflagChanged

SpecHeat == HeatInit /\ [][HeatNext]_vars

(***************************************************************************)
(* Specification SpecBronze: the pipeline's two nodes that read            *)
(* bronze_granules_partitioned (bronze_ingestion/pipeline.py), each run    *)
(* once on the same argument, in either order                              *)
(***************************************************************************)
BronzeInit ==
    /\ \/ bArg \in NonMappings
       \/ \E n \in 0..MaxParts : \E ks \in KeyOrders(n) : \E c \in RowCounts(n) :
              bArg \in MappingsOf(n, ks, c)
    /\ bCons = Pending
    /\ bMan = Pending
    /\ HeatIdle
    /\ SilverIdle
    /\ MetricIdle
    /\ PrepareIdle
    /\ GoldIdle
    /\ ApiIdle
    /\ DownloadIdle
    /\ DiscoveryIdle

RunConsolidate ==
    /\ bCons = Pending
    /\ bCons' = consolidate_bronze_granules(bArg)
    /\ UNCHANGED <<bArg, bMan>>
    /\ UNCHANGED <<heatVars, silverVars, metricVars, prepareVars, goldVars, apiVars, downloadVars, discoveryVars>>

RunManifest ==
    /\ bMan = Pending
    /\ bMan' = create_bronze_manifest(bArg)
    /\ UNCHANGED <<bArg, bCons>>
    /\ UNCHANGED <<heatVars, silverVars, metricVars, prepareVars, goldVars, apiVars, downloadVars, discoveryVars>>

BronzeNext == RunConsolidate \/ RunManifest

SpecBronze == BronzeInit /\ [][BronzeNext]_vars

(***************************************************************************)
(* Specification SpecSilver: one call of process_region_granules           *)
(* (lines 384-558), a step per region loaded and per granule processed     *)
(***************************************************************************)
\* a call on a mapping of two partitions with at most n granules together
SilverStart(n) ==
    /\ \E c \in {d \in [1..2 -> 0..n] : d[1] + d[2] <= n} :
           sArg \in SilverItems(c)
    /\ sEnable \in BOOLEAN
    \* the links are read only when enable_download is set
    /\ ~sEnable => \A i \in 1..2 : \A k \in 1..Len(sArg[i].value.table.rows) :
                       sArg[i].value.table.rows[k].links = <<BrowseLink, DataLink>>
    /\ sPc = "regions" /\ sR = 1 /\ sG = 0 /\ sRecs = <<>> /\ sOut = <<>>
    /\ sRun = 1 /\ sPrevOut = <<>>
    /\ HeatIdle
    /\ BronzeIdle
    /\ MetricIdle
    /\ PrepareIdle
    /\ GoldIdle
    /\ ApiIdle
    /\ DownloadIdle
    /\ DiscoveryIdle

SilverInit == SilverStart(MaxGranules)

SValue == sArg[sR].value

\* line 418: the lazy loader of the region raises; nothing catches it
SilverLoaderRaises ==
    /\ sPc = "regions" /\ sR <= Len(sArg)
    /\ CallRaises(SValue)
    /\ sPc' = "raised"
    /\ UNCHANGED <<sArg, sEnable, sR, sG, sRecs, sOut>>
    /\ UNCHANGED <<sRun, sPrevOut, heatVars, bronzeVars, metricVars, prepareVars, goldVars, apiVars, downloadVars, discoveryVars>>

\* lines 422-424: an invalid or empty partition is skipped
SilverSkipRegion ==
    /\ sPc = "regions" /\ sR <= Len(sArg)
    /\ ~CallRaises(SValue)
    /\ ~IsDataFrame(SValue) \/ IsEmpty(SValue.table)
    /\ sR' = sR + 1
    /\ UNCHANGED <<sArg, sEnable, sPc, sG, sRecs, sOut>>
    /\ UNCHANGED <<sRun, sPrevOut, heatVars, bronzeVars, metricVars, prepareVars, goldVars, apiVars, downloadVars, discoveryVars>>

\* lines 426-437: the loop over the rows of the region starts
SilverEnterRegion ==
    /\ sPc = "regions" /\ sR <= Len(sArg)
    /\ ~CallRaises(SValue)
    /\ IsDataFrame(SValue) /\ ~IsEmpty(SValue.table)
    /\ sPc' = "granules" /\ sG' = 1 /\ sRecs' = <<>>
    /\ UNCHANGED <<sArg, sEnable, sR, sOut>>
    /\ UNCHANGED <<sRun, sPrevOut, heatVars, bronzeVars, metricVars, prepareVars, goldVars, apiVars, downloadVars, discoveryVars>>

\* lines 439-530: one row of the region
SilverGranule ==
    /\ sPc = "granules" /\ sG <= Len(SValue.table.rows)
    /\ \E env \in SilverEnvs :
           sRecs' = sRecs \o GranuleRecords(SValue.table.rows[sG], sEnable, env)
    /\ sG' = sG + 1
    /\ UNCHANGED <<sArg, sEnable, sPc, sR, sOut>>
    /\ UNCHANGED <<sRun, sPrevOut, heatVars, bronzeVars, metricVars, prepareVars, goldVars, apiVars, downloadVars, discoveryVars>>

\* lines 532-556: the table of the region, sorted, with the time-series
\* metrics, is stored
SilverSeriesPass ==
    /\ sPc = "granules" /\ sG > Len(SValue.table.rows)
    /\ \E sorted \in SortedByDate(sRecs) :
           sOut' = Append(sOut, [key |-> sArg[sR].key,
                                 table |-> WithAnomalyZscore(WithHeatwaveFlags(sorted))])
    /\ sPc' = "regions" /\ sR' = sR + 1 /\ sG' = 0 /\ sRecs' = <<>>
    /\ UNCHANGED <<sArg, sEnable>>
    /\ UNCHANGED <<sRun, sPrevOut, heatVars, bronzeVars, metricVars, prepareVars, goldVars, apiVars, downloadVars, discoveryVars>>

\* line 558
SilverReturn ==
    /\ sPc = "regions" /\ sR > Len(sArg)
    /\ sPc' = "done"
    /\ UNCHANGED <<sArg, sEnable, sR, sG, sRecs, sOut>>
    /\ UNCHANGED <<sRun, sPrevOut, heatVars, bronzeVars, metricVars, prepareVars, goldVars, apiVars, downloadVars, discoveryVars>>

SilverNext ==
    \/ SilverLoaderRaises
    \/ SilverSkipRegion
    \/ SilverEnterRegion
    \/ SilverGranule
    \/ SilverSeriesPass
    \/ SilverReturn

SpecSilver == SilverInit /\ [][SilverNext]_vars

(***************************************************************************)
(* Specification SpecRerun: process_region_granules called a second time   *)
(* with the same bronze_granules and the same enable_download              *)
(***************************************************************************)
RerunInit == SilverStart(MaxRerun)

\* the caller keeps what the first call returned and calls again
SilverRerun ==
    /\ sPc = "done" /\ sRun = 1
    /\ sPrevOut' = sOut
    /\ sRun' = 2
    /\ sPc' = "regions" /\ sR' = 1 /\ sG' = 0 /\ sRecs' = <<>> /\ sOut' = <<>>
    /\ UNCHANGED <<sArg, sEnable>>
    /\ UNCHANGED <<heatVars, bronzeVars, metricVars, prepareVars, goldVars, apiVars, downloadVars, discoveryVars>>

RerunNext == SilverNext \/ SilverRerun

SpecRerun == RerunInit /\ [][RerunNext]_vars

(***************************************************************************)
(* Specification SpecMetrics: calculate_degree_days, calculate_uhi_index   *)
(* and calculate_anomaly_zscore, each called once on its arguments         *)
(***************************************************************************)
\* the floats given as lst_mean_c / urban_temp: below, on and above the
\* bases, negative, and NaN
MetricTemps == {Num(-500), Num(0), Num(1799), Num(1800), Num(1801), Num(3300), NaN}
MetricBases == {Num(DefaultBase), Num(0)}
\* the readings of a column given to calculate_anomaly_zscore
ZTemps == {Num(2000), Num(2600), NaN}
\* the windows tried: one that slides over the columns, and the default
ZWindows == {2, BaselineWindow}

MetricInit ==
    \* the scalar functions and the z-score do not read each other's
    \* arguments: either the scalars vary or the column does
    /\ \/ /\ mMean \in MetricTemps
          /\ mBase \in MetricBases
          /\ zCol = <<>> /\ zWin = BaselineWindow
       \/ /\ mMean = NaN
          /\ mBase = Num(DefaultBase)
          /\ zCol \in SeqsUpTo(ZTemps, MaxLen)
          /\ zWin \in ZWindows
    /\ mDD = <<>> /\ mUhi = <<>>
    /\ zPc = "input" /\ zOut = <<>>
    /\ zChanged = 0 /\ zPrev = <<>>
    /\ HeatIdle
    /\ BronzeIdle
    /\ SilverIdle
    /\ PrepareIdle
    /\ GoldIdle
    /\ ApiIdle
    /\ DownloadIdle
    /\ DiscoveryIdle

RunDegreeDays ==
    /\ mDD = <<>>
    /\ mDD' = <<calculate_degree_days(mMean, mBase)>>
    /\ UNCHANGED <<mMean, mBase, mUhi, zCol, zPc, zOut, zWin, zChanged, zPrev>>
    /\ UNCHANGED <<heatVars, bronzeVars, silverVars, prepareVars, goldVars, apiVars, downloadVars, discoveryVars>>

RunUhiIndex ==
    /\ mUhi = <<>>
    /\ mUhi' = <<calculate_uhi_index(mMean, Num(DefaultRural))>>
    /\ UNCHANGED <<mMean, mBase, mDD, zCol, zPc, zOut, zWin, zChanged, zPrev>>
    /\ UNCHANGED <<heatVars, bronzeVars, silverVars, prepareVars, goldVars, apiVars, downloadVars, discoveryVars>>

RunAnomalyZscore ==
    /\ zPc = "input"
    /\ zOut' = calculate_anomaly_zscore(zCol, zWin)
    /\ zPc' = "done"
    /\ UNCHANGED <<mMean, mBase, mDD, mUhi, zCol, zWin, zChanged, zPrev>>
    /\ UNCHANGED <<heatVars, bronzeVars, silverVars, prepareVars, goldVars, apiVars, downloadVars, discoveryVars>>

\* the caller runs it again on a column that differs in one position j
RezscoreChanged ==
    /\ zPc = "done"
    /\ \E j \in 1..Len(zCol) : \E v \in ZTemps \ {zCol[j]} :
          /\ zCol' = [zCol EXCEPT ![j] = v]
          /\ zOut' = calculate_anomaly_zscore(zCol', zWin)
          /\ zChanged' = j
          /\ zPrev' = zOut
    /\ UNCHANGED <<mMean, mBase, mDD, mUhi, zPc, zWin>>
    /\ UNCHANGED <<heatVars, bronzeVars, silverVars, prepareVars, goldVars, apiVars, downloadVars, discoveryVars>>

MetricNext == RunDegreeDays \/ RunUhiIndex \/ RunAnomalyZscore \/ RezscoreChanged

SpecMetrics == MetricInit /\ [][MetricNext]_vars

(***************************************************************************)
(* prepare_bronze_granules (bronze_ingestion/nodes.py 16-91)               *)
(* The result of a region in cmr_discovery_results is one of:              *)
(*   "error"      status is not 'success' (lines 32-36)                    *)
(*   "no_path"    no file_path (lines 43-45)                               *)
(*   "unreadable" open() or json.load() raises (lines 47-52)               *)
(*   "not_object" the file holds JSON that is no object (a list, null)     *)
(*   "object"     the file holds an object; granules is its list of        *)
(*                entries                                                  *)
(* An entry has an id (or none) and a time_start: none, the timestamp of a *)
(* day, or a string that is no timestamp.                                  *)
(***************************************************************************)
NoId == [tag |-> "none", val |-> 0]
Id(v) == [tag |-> "id", val |-> v]
NoTime == [tag |-> "none", day |-> 0]
TimeOf(d) == [tag |-> "ts", day |-> d]
BadTime == [tag |-> "bad", day |-> 0]
NaT == [tag |-> "nat", day |-> 0]
DateOf(d) == [tag |-> "date", day |-> d]

EntryIds == {NoId, Id(1), Id(2)}
EntryTimes == {NoTime, TimeOf(1), TimeOf(2), BadTime}
Entries == {[id |-> i, time_start |-> t] : i \in EntryIds, t \in EntryTimes}

\* the results a region can have when its payload holds n entries
DiscoveryResultsOfSize(n) ==
    {[kind |-> "object", granules |-> g] : g \in [1..n -> Entries]}
    \cup (IF n = 0
          THEN {[kind |-> k, granules |-> <<>>] :
                   k \in {"error", "no_path", "unreadable", "not_object"}}
          ELSE {})

RECURSIVE DiscoverySeqs(_, _)
DiscoverySeqs(c, k) ==
    IF k = 0 THEN {<<>>}
    ELSE {Append(front, [key |-> k, result |-> r]) :
              front \in DiscoverySeqs(c, k - 1), r \in DiscoveryResultsOfSize(c[k])}

EntryCounts(n) == {c \in [1..n -> 0..MaxEntries] : SumSeq(c) <= MaxEntries}

\* pd.to_datetime(df["time_start"]) raises when a value is no timestamp
ToDatetimeRaises(granules) ==
    \E i \in 1..Len(granules) : granules[i].time_start.tag = "bad"

\* .dt.date of a parsed time_start (line 85): the day, NaT for a missing one
DateOfTime(t) == IF t.tag = "ts" THEN DateOf(t.day) ELSE NaT

\* lines 62-85: one record per entry, in the order of the payload
GranuleTable(region_id, granules) ==
    [i \in 1..Len(granules) |->
        [region_id |-> region_id,
         granule_id |-> granules[i].id,
         time_start |-> granules[i].time_start,
         date |-> DateOfTime(granules[i].time_start)]]

\* the loop of lines 31-89 from region k on; bronze_data is kept in
\* insertion order
RECURSIVE PrepareLoop(_, _, _)
PrepareLoop(results, k, bronze_data) ==
    IF k > Len(results) THEN [outcome |-> "returned", bronze_data |-> bronze_data]
    ELSE LET result == results[k].result
         IN IF result.kind \in {"error", "no_path", "unreadable"}       \* continue
            THEN PrepareLoop(results, k + 1, bronze_data)
            ELSE IF result.kind = "not_object"       \* line 55: lst_data.get raises
            THEN [outcome |-> "raised", bronze_data |-> <<>>]
            ELSE IF result.granules = <<>>                      \* lines 57-59
            THEN PrepareLoop(results, k + 1, bronze_data)
            ELSE IF ToDatetimeRaises(result.granules)           \* line 85 raises
            THEN [outcome |-> "raised", bronze_data |-> <<>>]
            ELSE PrepareLoop(results, k + 1,
                     Append(bronze_data,
                            [key |-> results[k].key,
                             table |-> GranuleTable(results[k].key, result.granules)]))

prepare_bronze_granules(cmr_discovery_results) ==
    PrepareLoop(cmr_discovery_results, 1, <<>>)

(***************************************************************************)
(* Specification SpecPrepare: one call of prepare_bronze_granules          *)
(***************************************************************************)
PrepareInit ==
    /\ \E n \in 0..MaxParts : \E c \in EntryCounts(n) : pArg \in DiscoverySeqs(c, n)
    /\ pOut = Pending
    /\ HeatIdle
    /\ BronzeIdle
    /\ SilverIdle
    /\ MetricIdle
    /\ GoldIdle
    /\ ApiIdle
    /\ DownloadIdle
    /\ DiscoveryIdle

RunPrepare ==
    /\ pOut = Pending
    /\ pOut' = prepare_bronze_granules(pArg)
    /\ UNCHANGED pArg
    /\ UNCHANGED <<heatVars, bronzeVars, silverVars, metricVars, goldVars, apiVars, downloadVars, discoveryVars>>

PrepareNext == RunPrepare

SpecPrepare == PrepareInit /\ [][PrepareNext]_vars

(***************************************************************************)
(* aggregate_region_metrics and calculate_kpi_summary                      *)
(* (gold_feature_engineering/nodes.py 15-108)                              *)
(* A series is the table a silver partition loads to: records with a date, *)
(* lst_mean_c, cdd, hdd, heatwave_flag, uhi_index and anomaly_zscore. The  *)
(* metrics of a granule that failed are NaN in the loaded table.           *)
(***************************************************************************)
GoldDates == {1, 2, 3}
GoldTemps == {Num(1500), Num(3500), NaN}

\* a record of a series as process_region_granules computes it from its
\* date, its mean and its flag
GoldRecord(d, t, f) ==
    [date |-> d,
     lst_mean_c |-> t,
     cdd |-> IF t = NaN THEN NaN ELSE calculate_degree_days(t, Num(DefaultBase))[1],
     hdd |-> IF t = NaN THEN NaN ELSE calculate_degree_days(t, Num(DefaultBase))[2],
     heatwave_flag |-> f,
     uhi_index |-> calculate_uhi_index(t, Num(DefaultRural)),
     anomaly_zscore |-> IF t = NaN THEN NaN ELSE Num(0)]

GoldRecords ==
    {GoldRecord(d, t, 0) : d \in GoldDates, t \in GoldTemps}
    \cup {GoldRecord(d, Num(3500), 1) : d \in GoldDates}

RECURSIVE GoldSeqs(_, _)
GoldSeqs(c, k) ==
    IF k = 0 THEN {<<>>}
    ELSE {Append(front, [key |-> k, df |-> t]) :
              front \in GoldSeqs(c, k - 1), t \in [1..c[k] -> GoldRecords]}

SeriesCounts(n) == {c \in [1..n -> 1..MaxSeries] : SumSeq(c) <= MaxSeries}

\* df.sort_values("date") (line 35)
sort_values_date(df) == SortedByDate(df)

\* float(x) if pd.notna(x) else 0.0 (lines 47-49, 92-94, 103-105)
NotnaOrZero(x) == IF x.tag = "num" THEN x ELSE Num(0)

\* the metric of a row (lines 40-50)
MetricOf(row) ==
    [date |-> row.date,
     lst_mean_c |-> row.lst_mean_c,
     cdd |-> row.cdd,
     hdd |-> row.hdd,
     heatwave_flag |-> row.heatwave_flag,
     uhi_index |-> row.uhi_index,
     anomaly_zscore |-> NotnaOrZero(row.anomaly_zscore)]

\* Series.max(): the largest of the values that are numbers, NaN without one
RECURSIVE SeriesMax(_)
SeriesMax(col) ==
    IF col = <<>> THEN NaN
    ELSE LET rest == SeriesMax(Tail(col))
         IN IF Head(col).tag # "num" THEN rest
            ELSE IF rest.tag # "num" THEN Head(col)
            ELSE IF Head(col).val >= rest.val THEN Head(col) ELSE rest

\* Series.mean(): the sum and the count of the values that are numbers
SeriesMean(col) ==
    LET nums == SelectSeq(col, LAMBDA x : x.tag = "num")
    IN IF nums = <<>> THEN NaN
       ELSE [tag |-> "mean",
             sum |-> SumSeq([k \in 1..Len(nums) |-> nums[k].val]),
             count |-> Len(nums)]

Column(df, field) == [k \in 1..Len(df) |-> df[k][field]]

\* today's statistics of the row latest (lines 99-106)
TodayStats(latest) ==
    [lst_mean_c |-> latest.lst_mean_c,
     cdd |-> latest.cdd,
     hdd |-> latest.hdd,
     anomaly_zscore |-> NotnaOrZero(latest.anomaly_zscore)]

\* the year-to-date statistics (lines 88-95)
YtdStats(df) ==
    [avg_lst_c |-> SeriesMean(Column(df, "lst_mean_c")),
     heatwave_days |-> SumSeq(Column(df, "heatwave_flag")),
     max_uhi_index |-> SeriesMax(Column(df, "uhi_index")),
     max_anomaly_zscore |-> NotnaOrZero(SeriesMax(Column(df, "anomaly_zscore")))]

\* mutant: today is the first row of the table
calculate_kpi_summary_first(df) ==
    [ytd |-> YtdStats(df), today |-> TodayStats(df[1])]

\* calculate_kpi_summary (lines 77-108): latest = df.iloc[-1]
calculate_kpi_summary(df) ==
    [ytd |-> YtdStats(df), today |-> TodayStats(df[Len(df)])]

\* the entry of a region (lines 31-71), for one way sort_values orders it
RegionEntries(item) ==
    {[key |-> item.key,
      metrics |-> [k \in 1..Len(df) |-> MetricOf(df[k])],
      kpi_summary |-> calculate_kpi_summary(df)] : df \in sort_values_date(item.df)}

\* the loop of lines 29-71 from region k on
RECURSIVE AggregateLoop(_, _)
AggregateLoop(silver_metrics, k) ==
    IF k = 0 THEN {<<>>}
    ELSE {Append(front, e) : front \in AggregateLoop(silver_metrics, k - 1),
                             e \in RegionEntries(silver_metrics[k])}

aggregate_region_metrics(silver_metrics) ==
    AggregateLoop(silver_metrics, Len(silver_metrics))

(***************************************************************************)
(* Specification SpecGold: one call of aggregate_region_metrics            *)
(***************************************************************************)
GoldInit ==
    /\ \E n \in 1..MaxParts : \E c \in SeriesCounts(n) : gArg \in GoldSeqs(c, n)
    /\ gOut = Pending
    /\ HeatIdle
    /\ BronzeIdle
    /\ SilverIdle
    /\ MetricIdle
    /\ PrepareIdle
    /\ ApiIdle
    /\ DownloadIdle
    /\ DiscoveryIdle

RunAggregate ==
    /\ gOut = Pending
    /\ gOut' \in {[outcome |-> "returned", aggregated_metrics |-> a] :
                     a \in aggregate_region_metrics(gArg)}
    /\ UNCHANGED gArg
    /\ UNCHANGED <<heatVars, bronzeVars, silverVars, metricVars, prepareVars, apiVars, downloadVars, discoveryVars>>

GoldNext == RunAggregate

SpecGold == GoldInit /\ [][GoldNext]_vars

(***************************************************************************)
(* GET /v1/metrics (api/api.py 172-220) and load_region_metrics (44-67)    *)
(* A query parameter is absent or has a value; dates are day numbers,      *)
(* which compare as the YYYY-MM-DD strings of the code do.                 *)
(***************************************************************************)
Absent == [present |-> FALSE, val |-> 0]
Param(v) == [present |-> TRUE, val |-> v]

ApiDates == {1, 2, 3}
ApiRegions == {1, 2}
Requests ==
    [region_id : {Absent} \cup {Param(r) : r \in ApiRegions},
     from_date : {Absent} \cup {Param(d) : d \in ApiDates},
     to_date : {Absent} \cup {Param(d) : d \in ApiDates}]

\* the metrics of a gold file: one per date of a set, in date order
RECURSIVE MetricsOfDates(_, _)
MetricsOfDates(ds, d) ==
    IF d > 3 THEN <<>>
    ELSE (IF d \in ds THEN <<[date |-> d, lst_mean_c |-> Num(1500 + 500 * d)]>> ELSE <<>>)
         \o MetricsOfDates(ds, d + 1)

\* the gold file of a region: missing, not readable as JSON, or a document
Stores ==
    {[kind |-> k, metrics |-> <<>>] : k \in {"missing", "corrupt"}}
    \cup {[kind |-> "json", metrics |-> MetricsOfDates(ds, 1)] : ds \in SUBSET ApiDates}

\* lines 194-206: the metrics within the date range, where one is given
FilterMetrics(metrics, from_date, to_date) ==
    SelectSeq(metrics,
        LAMBDA metric : /\ ~(from_date.present /\ metric.date < from_date.val)
                        /\ ~(to_date.present /\ metric.date > to_date.val))

ErrorResponse(code) ==
    [status |-> code, from |-> Absent, to |-> Absent, count |-> 0, metrics |-> <<>>]

\* get_metrics behind FastAPI's validation of the parameters: region_id is
\* Query(...), required, from_date and to_date are Query(None), optional
get_metrics(req, store) ==
    IF ~req.region_id.present THEN ErrorResponse(422)
    ELSE IF store.kind = "missing" THEN ErrorResponse(404)       \* lines 217-218
    ELSE IF store.kind = "corrupt" THEN ErrorResponse(500)       \* lines 219-220
    ELSE LET filtered_metrics == FilterMetrics(store.metrics, req.from_date, req.to_date)
             n == Len(filtered_metrics)
         IN [status |-> 200,
             from |-> IF req.from_date.present THEN req.from_date
                      ELSE IF n > 0 THEN Param(filtered_metrics[1].date) ELSE Absent,
             to |-> IF req.to_date.present THEN req.to_date
                    ELSE IF n > 0 THEN Param(filtered_metrics[n].date) ELSE Absent,
             count |-> n,
             metrics |-> filtered_metrics]

(***************************************************************************)
(* Specification SpecApi: one GET /v1/metrics request                      *)
(***************************************************************************)
ApiInit ==
    /\ aReq \in Requests
    /\ aStore \in Stores
    /\ aResp = Pending
    /\ HeatIdle
    /\ BronzeIdle
    /\ SilverIdle
    /\ MetricIdle
    /\ PrepareIdle
    /\ GoldIdle
    /\ DownloadIdle
    /\ DiscoveryIdle

ServeMetrics ==
    /\ aResp = Pending
    /\ aResp' = get_metrics(aReq, aStore)
    /\ UNCHANGED <<aReq, aStore>>
    /\ UNCHANGED <<heatVars, bronzeVars, silverVars, metricVars, prepareVars, goldVars, downloadVars, discoveryVars>>

ApiNext == ServeMetrics

SpecApi == ApiInit /\ [][ApiNext]_vars

(***************************************************************************)
(* download_granule (silver_processing/nodes.py 76-118)                    *)
(* The body of a granule file has FileChunks chunks. A file in the output  *)
(* directory is absent or holds the chunks written to it so far. What the  *)
(* network does during a call is one of:                                   *)
(*   "request_error"  requests.get or raise_for_status raises (106-107)    *)
(*   "interrupted"    the stream breaks after some chunks were written     *)
(*   "ok"             every chunk arrives                                  *)
(***************************************************************************)
FileChunks == 2      \* chunks in the body of a granule file
DownloadIds == {1, 2}

NoFile == [exists |-> FALSE, chunks |-> 0]
FileWith(n) == [exists |-> TRUE, chunks |-> n]

Networks ==
    {[kind |-> "request_error", chunks |-> 0], [kind |-> "ok", chunks |-> FileChunks]}
    \cup {[kind |-> "interrupted", chunks |-> n] : n \in 0..(FileChunks - 1)}

\* download_granule: the file it leaves and what it returns
download_granule(output_file, network) ==
    IF output_file.exists                                        \* lines 96-98
    THEN [file |-> output_file, returned |-> "path"]
    ELSE IF network.kind = "request_error"                       \* lines 106-107, 116-118
    THEN [file |-> output_file, returned |-> "None"]
    ELSE IF network.kind = "interrupted"                         \* lines 109-111, 116-118
    THEN [file |-> FileWith(network.chunks), returned |-> "None"]
    ELSE [file |-> FileWith(FileChunks), returned |-> "path"]    \* lines 109-114

(***************************************************************************)
(* Specification SpecDownload: calls of download_granule, one after the    *)
(* other, on a directory that starts empty                                 *)
(***************************************************************************)
DownloadInit ==
    /\ dFiles = [g \in DownloadIds |-> NoFile]
    /\ dCalls = 0
    /\ dRet = Pending
    /\ HeatIdle
    /\ BronzeIdle
    /\ SilverIdle
    /\ MetricIdle
    /\ PrepareIdle
    /\ GoldIdle
    /\ ApiIdle
    /\ DiscoveryIdle

Download ==
    /\ dCalls < MaxCalls
    /\ \E granule_id \in DownloadIds : \E network \in Networks :
           LET r == download_granule(dFiles[granule_id], network)
           IN /\ dFiles' = [dFiles EXCEPT ![granule_id] = r.file]
              /\ dRet' = [outcome |-> "returned", granule_id |-> granule_id,
                          returned |-> r.returned]
    /\ dCalls' = dCalls + 1
    /\ UNCHANGED <<heatVars, bronzeVars, silverVars, metricVars, prepareVars, goldVars, apiVars, discoveryVars>>

DownloadNext == Download

SpecDownload == DownloadInit /\ [][DownloadNext]_vars

(***************************************************************************)
(* get_lst_data (data_discovery/cmr_api.py 132-311), save_lst_data_to_json *)
(* (321-369) and the loop body of discover_lst_data_for_regions            *)
(* (data_discovery/nodes.py 92-126)                                        *)
(* The result of a search is the list of the time_start days of its        *)
(* entries; a search that fails returns an empty list (lines 77-79).       *)
(***************************************************************************)
DefaultProduct == "MOD11A1"
FallbackProducts == <<"MOD11A1", "MOD11B1", "MOD11C1", "MYD11A1", "VNP21">>
NoProduct == "None"

SearchResults == {<<>>, <<1>>, <<2>>, <<2, 1>>}

SeqRange(q) == {q[k] : k \in 1..Len(q)}

\* list.remove(x): the list without the first x
RECURSIVE RemoveFirst(_, _)
RemoveFirst(q, x) ==
    IF q = <<>> THEN <<>>
    ELSE IF Head(q) = x THEN Tail(q) ELSE <<Head(q)>> \o RemoveFirst(Tail(q), x)

\* lines 182-194
ProductsToTry(product) ==
    LET products_to_try == <<product>> \o FallbackProducts
    IN IF product \in SeqRange(Tail(products_to_try))
       THEN <<product>> \o RemoveFirst(products_to_try, product)
       ELSE products_to_try

\* lines 223-228: the latest time_start of the entries
MostRecent(entries) == SeqMax(entries)

\* the loop of lines 203-245 from position k on; st holds final_result (found,
\* entries), used_product and most_recent_granule_date
RECURSIVE ProductLoop(_, _, _, _, _)
ProductLoop(products, k, product, search, st) ==
    IF k > Len(products) THEN st
    ELSE LET product_name == products[k]
             entries == search[product_name]
         IN IF entries = <<>> THEN ProductLoop(products, k + 1, product, search, st)
            ELSE LET keep == ~st.found \/ MostRecent(entries) > st.most_recent_granule_date
                     st2 == IF keep
                            THEN [found |-> TRUE, entries |-> entries,
                                  used_product |-> product_name,
                                  most_recent_granule_date |-> MostRecent(entries)]
                            ELSE st
                 IN IF product_name = product THEN st2                  \* break
                    ELSE ProductLoop(products, k + 1, product, search, st2)

\* get_lst_data: line 293 calls result.get on final_result, which is None
\* when no search found an entry
get_lst_data(product, search, expanded) ==
    LET none == [found |-> FALSE, entries |-> <<>>, used_product |-> NoProduct,
                 most_recent_granule_date |-> 0]
        st == ProductLoop(ProductsToTry(product), 1, product, search, none)
        fin == IF st.found THEN st
               ELSE IF expanded # <<>>                                  \* lines 248-272
               THEN [st EXCEPT !.found = TRUE, !.entries = expanded,
                               !.used_product = "MOD11A1"]
               ELSE st
    IN IF ~fin.found
       THEN [outcome |-> "raised", product |-> NoProduct, granules |-> <<>>]
       ELSE [outcome |-> "returned", product |-> fin.used_product,
             granules |-> fin.entries]

\* the entry of the region in the discovery results (nodes.py 96-126):
\* save_lst_data_to_json writes what get_lst_data returns, and an exception
\* of either gives status 'error'
DiscoveryEntry(lst_data) ==
    IF lst_data.outcome = "raised"
    THEN [status |-> "error", file |-> <<>>]
    ELSE [status |-> "success",
          file |-> <<[product |-> lst_data.product, granules |-> lst_data.granules]>>]

(***************************************************************************)
(* Specification SpecDiscovery: the discovery of one region                *)
(***************************************************************************)
DiscoveryInit ==
    /\ cSearch \in [SeqRange(FallbackProducts) -> SearchResults]
    /\ cExpanded \in SearchResults
    /\ cLst = Pending
    /\ cResult = Pending
    /\ HeatIdle
    /\ BronzeIdle
    /\ SilverIdle
    /\ MetricIdle
    /\ PrepareIdle
    /\ GoldIdle
    /\ ApiIdle
    /\ DownloadIdle

DiscoverRegion ==
    /\ cResult = Pending
    /\ cLst' = get_lst_data(DefaultProduct, cSearch, cExpanded)
    /\ cResult' = [outcome |-> "returned", entry |-> DiscoveryEntry(cLst')]
    /\ UNCHANGED <<cSearch, cExpanded>>
    /\ UNCHANGED <<heatVars, bronzeVars, silverVars, metricVars, prepareVars, goldVars, apiVars, downloadVars>>

DiscoveryNext == DiscoverRegion

SpecDiscovery == DiscoveryInit /\ [][DiscoveryNext]_vars

(***************************************************************************)
(* Claims on calculate_heatwave_flag                                       *)
(***************************************************************************)
\* the streak ending at position i: the number of consecutive hot records
\* ending at i (0 when record i is not hot)
StreakAt(col, temp_threshold, i) ==
    Cardinality({k \in 1..i : \A j \in (i - k + 1)..i : IsHot(col[j], temp_threshold)})

ExampleMeans == <<Num(3300), Num(3350), Num(3300), Num(2000)>>

\* C1: calculate_heatwave_flag returns one flag per record, in input order;
\* the flag at i is 1 iff the streak of records >= temp_threshold ending at
\* i is >= consecutive_days, else 0; [33.0, 33.5, 33.0, 20.0] with threshold
\* 32.0 and 3 days gives [0, 0, 1, 0].
C1_FlagIffStreak ==
    hwPc = "done" =>
        /\ Len(hwFlags) = Len(means)
        /\ \A i \in 1..Len(means) :
              hwFlags[i] = IF StreakAt(means, thr, i) >= cdays THEN 1 ELSE 0
        /\ (means = ExampleMeans /\ thr = DefaultThreshold /\ cdays = DefaultDays)
              => hwFlags = <<0, 0, 1, 0>>

C1_Witness ==
    /\ hwPc = "done"
    /\ means = ExampleMeans /\ thr = DefaultThreshold /\ cdays = DefaultDays
    /\ hwFlags = <<0, 0, 1, 0>>

\* C2: the flags are causal: when two columns agree on the positions up to i
\* and differ only after i, the flags at every position <= i are the same
\* (same threshold and consecutive_days). Two such columns are joined by
\* changes of one position j > i each; hwPrevFlags are the flags of the
\* column before the change at hwChanged.
C2_Causal ==
    (hwPc = "done" /\ hwChanged > 0) =>
        /\ Len(hwFlags) = Len(hwPrevFlags)
        /\ \A i \in 1..(hwChanged - 1) : hwFlags[i] = hwPrevFlags[i]

\* the last day of a heatwave went from hot to NaN: its flag changed, the
\* flags before it did not
C2_Witness ==
    /\ hwPc = "done" /\ hwChanged = 4
    /\ cdays = DefaultDays /\ thr = DefaultThreshold
    /\ means[4] = NaN
    /\ hwPrevFlags = <<0, 0, 1, 1>>
    /\ hwFlags = <<0, 0, 1, 0>>

\* a reading at or above the threshold, written out
AtOrAbove(m, t) == m.tag = "num" /\ m.val >= t

\* C15: a record with an undefined mean (NaN or null) is not hot: its flag is
\* 0 and it resets the streak, so a flag of 1 after it needs consecutive_days
\* hot records that all come after it.
C15_UndefinedMeanResetsStreak ==
    hwPc = "done" =>
        \A i \in 1..Len(means) : means[i].tag # "num" =>
            /\ hwFlags[i] = 0
            /\ \A j \in (i + 1)..Len(means) : hwFlags[j] = 1 =>
                   /\ j - i >= cdays
                   /\ \A k \in (j - cdays + 1)..j : AtOrAbove(means[k], thr)

\* a hot day, a NaN, a hot day and a null with consecutive_days 2: the two
\* hot days do not add up, nothing is flagged
C15_Witness ==
    /\ hwPc = "done" /\ cdays = 2 /\ thr = DefaultThreshold
    /\ means = <<Num(3300), NaN, Num(3350), None>>
    /\ hwFlags = <<0, 0, 0, 0>>

\* C16: in a run of records all at or above the threshold that starts from
\* streak 0 (at the first record, or after a record that is not hot), the
\* flags are 0 for the first consecutive_days-1 records and 1 from the record
\* number consecutive_days of the run on; no 0 follows a 1 inside the run.
C16_MonotonicWithinRun ==
    hwPc = "done" =>
        \A a \in 1..Len(means) : \A b \in a..Len(means) :
            (/\ a = 1 \/ ~AtOrAbove(means[a - 1], thr)
             /\ \A k \in a..b : AtOrAbove(means[k], thr))
            => /\ \A k \in a..b : hwFlags[k] = IF k - a + 1 >= cdays THEN 1 ELSE 0
               /\ \A k \in a..(b - 1) : hwFlags[k] = 1 => hwFlags[k + 1] = 1

\* four hot days with consecutive_days 2
C16_Witness ==
    /\ hwPc = "done" /\ cdays = 2 /\ Len(means) = 4
    /\ \A k \in 1..4 : AtOrAbove(means[k], thr)
    /\ hwFlags = <<0, 1, 1, 1>>
(***************************************************************************)
(* Claims on consolidate_bronze_granules and create_bronze_manifest        *)
(***************************************************************************)
BValue(i) == bArg.items[i].value
BParts == 1..Len(bArg.items)
\* a valid partition resolves to a non-empty table
ValidPart(i) == IsDataFrame(BValue(i)) /\ ~IsEmpty(BValue(i).table)
\* a well-formed one has every column of prepare_bronze_granules
WellFormedPart(i) == ValidPart(i) /\ BValue(i).table.cols = AllColumns
\* bad in one of the three ways of the consolidator's contract: the loader
\* raises, the value is no table, the table is empty
BadPart(i) == ~ValidPart(i)
CountIn(seq, x) == Cardinality({k \in 1..Len(seq) : seq[k] = x})

\* C5: consolidate_bronze_granules never raises because of a single bad
\* partition (loader raises, non-table value, empty table): the bad partition
\* is skipped and the rows of every other valid partition are in the unified
\* table.
C5_NoRaiseOnBadPartition ==
    (/\ bArg.kind = "mapping" /\ bCons # Pending
     /\ Cardinality({i \in BParts : BadPart(i)}) = 1
     /\ \A i \in BParts : BadPart(i) \/ WellFormedPart(i))
    => /\ bCons.outcome = "returned"
       /\ \A i \in BParts : WellFormedPart(i) =>
             \A k \in 1..Len(BValue(i).table.rows) :
                 CountIn(bCons.rows, BValue(i).table.rows[k]) > 0

\* C6: in create_bronze_manifest a partition that fails (loader raises, or
\* the table lacks a column of the summary) is skipped without affecting the
\* others: every other valid partition, before or after it, has its row.
C6_ManifestKeepsOtherRegions ==
    (bArg.kind = "mapping" /\ bMan # Pending) =>
        \A i \in BParts : WellFormedPart(i) =>
            \E k \in 1..Len(bMan.manifest) :
                bMan.manifest[k].region_id = bArg.items[i].key

\* C7: the unified table is the concatenation of the rows of all valid
\* partitions: n1+...+nk rows, each row with its region_id, sorted ascending
\* by (region_id, date).
C7_UnifiedTable ==
    (bArg.kind = "mapping" /\ bCons # Pending /\ bCons.outcome = "returned") =>
        LET dfs == {i \in BParts : IsDataFrame(BValue(i))}
            allRows == UNION {{BValue(i).table.rows[k] : k \in 1..Len(BValue(i).table.rows)}
                                : i \in dfs}
            size(i) == IF i \in dfs THEN Len(BValue(i).table.rows) ELSE 0
        IN /\ Len(bCons.rows) = SumSeq([i \in BParts |-> size(i)])
           /\ \A i \in BParts :
                 Cardinality({k \in 1..Len(bCons.rows) :
                     bCons.rows[k].region_id = bArg.items[i].key}) = size(i)
           /\ \A r \in allRows :
                 CountIn(bCons.rows, r) =
                     SumSeq([i \in BParts |-> IF i \in dfs
                                THEN CountIn(BValue(i).table.rows, r) ELSE 0])
           /\ \A k \in 1..(Len(bCons.rows) - 1) :
                 \/ bCons.rows[k].region_id < bCons.rows[k + 1].region_id
                 \/ /\ bCons.rows[k].region_id = bCons.rows[k + 1].region_id
                    /\ bCons.rows[k].date <= bCons.rows[k + 1].date

\* two valid partitions listed with the larger region first and dates
\* descending: three rows come back, reordered
C7_Witness ==
    /\ bArg.kind = "mapping" /\ bCons # Pending /\ bCons.outcome = "returned"
    /\ Len(bArg.items) = 2 /\ ValidPart(1) /\ ValidPart(2)
    /\ bArg.items[1].key = 2 /\ bArg.items[2].key = 1
    /\ Len(BValue(1).table.rows) = 2
    /\ BValue(1).table.rows[1].date > BValue(1).table.rows[2].date
    /\ Len(bCons.rows) = 3
    /\ bCons.rows[1].region_id = 1 /\ bCons.rows[3].region_id = 2

\* C8: within one run of consolidate_bronze_granules or
\* create_bronze_manifest the lazy loader of each partition is invoked
\* exactly once.
C8_LoaderCalledOnce ==
    bArg.kind = "mapping" =>
        /\ bCons # Pending =>
              \A i \in BParts : IsCallable(BValue(i)) => bCons.calls[i] = 1
        /\ bMan # Pending =>
              \A i \in BParts : IsCallable(BValue(i)) => bMan.calls[i] = 1

\* C9: skipped partitions are counted in a skipped-count exposed to the
\* caller: with exactly one of k partitions skipped the run reports 1.
\* The nodes return only the table and the manifest; the counts they emit
\* are those of the log lines (partitions found, valid DataFrames, manifest
\* entries), so the count reported is found minus valid.
C9_SkippedCountIsOne ==
    (bArg.kind = "mapping" /\ Cardinality({i \in BParts : BadPart(i)}) = 1) =>
        /\ bCons # Pending =>
              /\ bCons.found # <<>> /\ bCons.valid # <<>>
              /\ bCons.found[1] - bCons.valid[1] = 1
        /\ bMan # Pending =>
              /\ bMan.found # <<>>
              /\ bMan.found[1] - bMan.entries[1] = 1

\* C10: a run raises whenever the argument is no mapping of partitions
\* (None, a list, a scalar); it does not return an empty table or manifest.
C10_RaisesOnNonMapping ==
    bArg.kind # "mapping" =>
        /\ bCons # Pending => bCons.outcome = "raised"
        /\ bMan # Pending => bMan.outcome = "raised"

\* C11: create_bronze_manifest returns exactly one row per partition that
\* resolves to a non-empty table and no row for any other partition; in each
\* row record_count is the partition's number of rows, granule_count its
\* number of distinct granule_id values, date_min and date_max its least and
\* greatest date.
C11_ManifestRowPerValidPartition ==
    (bArg.kind = "mapping" /\ bMan # Pending) =>
        \A i \in BParts :
            LET ks == {k \in 1..Len(bMan.manifest) :
                          bMan.manifest[k].region_id = bArg.items[i].key}
                rows == BValue(i).table.rows
                dates == {rows[j].date : j \in 1..Len(rows)}
            IN IF ValidPart(i)
               THEN /\ Cardinality(ks) = 1
                    /\ \A k \in ks :
                          /\ bMan.manifest[k].record_count = Len(rows)
                          /\ bMan.manifest[k].granule_count =
                                 Cardinality({rows[j].granule_id : j \in 1..Len(rows)})
                          /\ bMan.manifest[k].date_min \in dates
                          /\ bMan.manifest[k].date_max \in dates
                          /\ \A d \in dates : /\ bMan.manifest[k].date_min <= d
                                               /\ d <= bMan.manifest[k].date_max
               ELSE ks = {}

\* the same, for the runs in which no loader raises and no table lacks a
\* column of the summary
C11_WhenNoPartitionFails ==
    (\A i \in BParts : ~CallRaises(BValue(i)) /\ (ValidPart(i) => WellFormedPart(i)))
        => C11_ManifestRowPerValidPartition
(***************************************************************************)
(* Claims on process_region_granules                                       *)
(***************************************************************************)
FailCauses == {"no_url", "download_failed", "extract_failed"}
SRows(i) == sArg[i].value.table.rows
SValid(i) == IsDataFrame(sArg[i].value) /\ ~IsEmpty(sArg[i].value.table)
OutOf(key) == {k \in 1..Len(sOut) : sOut[k].key = key}

\* C3: when every granule of a region fails per-record,
\* process_region_granules does not raise: the region's table is returned
\* with every record 'failed' and heatwave_flag 0, and the remaining regions
\* are processed.
C3_AllFailedRegionKept ==
    /\ sPc = "raised" => \E i \in 1..Len(sArg) : CallRaises(sArg[i].value)
    /\ sPc = "done" =>
          \A i \in 1..Len(sArg) : SValid(i) =>
              /\ Cardinality(OutOf(sArg[i].key)) = 1
              /\ \A k \in OutOf(sArg[i].key) :
                    LET t == sOut[k].table
                    IN (\A j \in 1..Len(t) : t[j].cause \in FailCauses) =>
                          /\ Len(t) = Len(SRows(i))
                          /\ \A j \in 1..Len(t) :
                                /\ t[j].processing_status = "failed"
                                /\ t[j].heatwave_flag = 0

\* both granules of the first region failed, the second region was still
\* processed
C3_Witness ==
    /\ sPc = "done" /\ sEnable
    /\ Len(sOut) = 2 /\ sOut[1].key = 1 /\ sOut[2].key = 2
    /\ Len(sOut[1].table) = 2
    /\ \A j \in 1..2 : /\ sOut[1].table[j].cause \in FailCauses
                       /\ sOut[1].table[j].processing_status = "failed"
                       /\ sOut[1].table[j].heatwave_flag = 0
    /\ Len(sOut[2].table) = 1
    /\ sOut[2].table[1].processing_status = "processed"

\* C4: a granule whose download URL is missing, whose download fails or
\* whose extraction fails (a tile without valid pixels included) gives a
\* record with null lst_mean_c/lst_min_c/lst_max_c and status 'failed'; the
\* other granules are still processed and the region's output has exactly
\* one record per input granule.
C4_FailedGranuleRecorded ==
    LET failedOk(r) ==
            r.cause \in FailCauses =>
                /\ r.lst_mean_c = None /\ r.lst_min_c = None /\ r.lst_max_c = None
                /\ r.processing_status = "failed"
        keptOk(r) == r.cause = "extracted" => r.processing_status = "processed"
    IN /\ \A t \in Tiles :
             (t.opens /\ t.subdataset /\ \A k \in 1..Len(t.pixels) : ~IsValidRaw(t.pixels[k]))
                 => ~extract_lst_from_hdf(t).ok
       /\ sPc = "granules" =>
             /\ Len(sRecs) = sG - 1
             /\ \A j \in 1..Len(sRecs) : failedOk(sRecs[j]) /\ keptOk(sRecs[j])
       /\ \A k \in 1..Len(sOut) :
             LET t == sOut[k].table
                 i == CHOOSE i \in 1..Len(sArg) : sArg[i].key = sOut[k].key
             IN /\ Len(t) = Len(SRows(i))
                /\ \A g \in 1..Len(SRows(i)) :
                      Cardinality({j \in 1..Len(t) : t[j].granule_id = g}) = 1
                /\ \A j \in 1..Len(t) : failedOk(t[j]) /\ keptOk(t[j])

\* a region of three granules: one without URL, one whose extraction failed,
\* one extracted
C4_Witness ==
    /\ sPc = "done" /\ sEnable
    /\ \E k \in 1..Len(sOut) :
          LET t == sOut[k].table
          IN /\ Len(t) = 3
             /\ \E a, b, c \in 1..3 :
                   /\ t[a].cause = "no_url" /\ t[a].lst_mean_c = None
                   /\ t[b].cause = "extract_failed" /\ t[b].processing_status = "failed"
                   /\ t[c].cause = "extracted" /\ t[c].processing_status = "processed"

\* the lst_mean_c column of a stored table
MeanColumn(t) == [j \in 1..Len(t) |-> t[j].lst_mean_c]

\* C12: heatwave_flag and anomaly_zscore of a region's records depend only
\* on that region's own records: the streak starts at 0 for every region,
\* both are what the region's own lst_mean_c column gives, and two regions
\* with the same column get the same flags and z-scores whatever else the
\* run holds.
C12_SeriesMetricsPerRegion ==
    /\ \A k \in 1..Len(sOut) :
          LET t == sOut[k].table
              z == calculate_anomaly_zscore(MeanColumn(t), BaselineWindow)
          IN \A j \in 1..Len(t) :
                /\ t[j].heatwave_flag =
                       IF StreakAt(MeanColumn(t), DefaultThreshold, j) >= DefaultDays
                       THEN 1 ELSE 0
                /\ t[j].anomaly_zscore = z[j]
    /\ \A k, l \in 1..Len(sOut) :
          MeanColumn(sOut[k].table) = MeanColumn(sOut[l].table) =>
              \A j \in 1..Len(sOut[k].table) :
                  /\ sOut[k].table[j].heatwave_flag = sOut[l].table[j].heatwave_flag
                  /\ sOut[k].table[j].anomaly_zscore = sOut[l].table[j].anomaly_zscore

\* the first region ends with two hot days, the second has one hot day: the
\* streak of the first does not reach into the second
C12_Witness ==
    /\ sPc = "done" /\ Len(sOut) = 2
    /\ Len(sOut[1].table) = 2 /\ Len(sOut[2].table) = 1
    /\ \A j \in 1..2 : AtOrAbove(sOut[1].table[j].lst_mean_c, DefaultThreshold)
    /\ AtOrAbove(sOut[2].table[1].lst_mean_c, DefaultThreshold)
    /\ sOut[2].table[1].heatwave_flag = 0

\* C13: heatwave_flag and anomaly_zscore are filled in a second pass per
\* region that starts only after every granule of the region has its
\* per-record metrics and runs over the records sorted ascending by date;
\* before the pass every record holds the placeholders 0 and 0.0.
C13_SeriesPassAfterRecords ==
    /\ sPc = "granules" =>
          /\ OutOf(sArg[sR].key) = {}
          /\ \A j \in 1..Len(sRecs) :
                sRecs[j].heatwave_flag = 0 /\ sRecs[j].anomaly_zscore = Num(0)
    /\ \A k \in 1..Len(sOut) :
          LET t == sOut[k].table
              i == CHOOSE i \in 1..Len(sArg) : sArg[i].key = sOut[k].key
          IN /\ Len(t) = Len(SRows(i))
             /\ \A g \in 1..Len(SRows(i)) : \E j \in 1..Len(t) : t[j].granule_id = g
             /\ \A j \in 1..(Len(t) - 1) : t[j].date <= t[j + 1].date

\* a region whose bronze rows come latest first: its table is stored oldest
\* first, with a z-score that is no placeholder
C13_Witness ==
    /\ sPc = "done" /\ Len(sOut) = 1
    /\ \E i \in 1..Len(sArg) :
          /\ sArg[i].key = sOut[1].key
          /\ Len(SRows(i)) = 2
          /\ SRows(i)[1].date > SRows(i)[2].date
    /\ Len(sOut[1].table) = 2
    /\ sOut[1].table[1].date < sOut[1].table[2].date
    /\ sOut[1].table[2].anomaly_zscore # Num(0)

\* C14: in every record emitted, processing_status is 'processed' iff
\* lst_mean_c is non-null and 'failed' otherwise (never 'pending'); cdd and
\* hdd are non-null iff lst_mean_c is non-null, and then both are >= 0.
C14_StatusAndDegreeDays ==
    \A k \in 1..Len(sOut) : \A j \in 1..Len(sOut[k].table) :
        LET r == sOut[k].table[j]
            present == r.lst_mean_c.tag = "num"
        IN /\ r.processing_status = IF present THEN "processed" ELSE "failed"
           /\ (r.cdd.tag = "num") = present
           /\ (r.hdd.tag = "num") = present
           /\ present => r.cdd.val >= 0 /\ r.hdd.val >= 0

\* a failed granule and an extracted one at 32.85 C in one table
C14_Witness ==
    /\ sPc = "done"
    /\ \E k \in 1..Len(sOut) : \E a, b \in 1..Len(sOut[k].table) :
          /\ sOut[k].table[a].processing_status = "failed"
          /\ sOut[k].table[a].cdd = None
          /\ sOut[k].table[b].processing_status = "processed"
          /\ sOut[k].table[b].cdd = Num(1485) /\ sOut[k].table[b].hdd = Num(0)

\* the fields of a record that C22 compares
MetricView(r) ==
    [lst_mean_c |-> r.lst_mean_c, cdd |-> r.cdd, hdd |-> r.hdd,
     uhi_index |-> r.uhi_index, heatwave_flag |-> r.heatwave_flag,
     anomaly_zscore |-> r.anomaly_zscore, processing_status |-> r.processing_status]

\* C22: recomputing is idempotent: a second call of process_region_granules
\* on the same bronze input and configuration gives, for every region, the
\* same records (lst_mean_c, cdd, hdd, uhi_index, heatwave_flag,
\* anomaly_zscore, processing_status) per granule as the first, also when
\* enable_download is off and the mock generator is used.
C22_RerunIdempotent ==
    (sPc = "done" /\ sRun = 2 /\ ~sEnable) =>
        /\ Len(sOut) = Len(sPrevOut)
        /\ \A k \in 1..Len(sOut) :
              /\ sOut[k].key = sPrevOut[k].key
              /\ {<<r.granule_id, MetricView(r)>> :
                      r \in {sOut[k].table[j] : j \in 1..Len(sOut[k].table)}}
                 = {<<r.granule_id, MetricView(r)>> :
                      r \in {sPrevOut[k].table[j] : j \in 1..Len(sPrevOut[k].table)}}

\* C17: every table emitted by process_region_granules has at most one
\* record per date, also for a region with several granules on one date.
C17_OneRecordPerDate ==
    \A k \in 1..Len(sOut) :
        \A a, b \in 1..Len(sOut[k].table) :
            a # b => sOut[k].table[a].date # sOut[k].table[b].date

(***************************************************************************)
(* Claims on calculate_degree_days, calculate_uhi_index and                *)
(* calculate_anomaly_zscore                                                *)
(***************************************************************************)
\* C18: for every (finite) mean_c and base_c, cdd >= 0 and hdd >= 0 with
\* exactly one of them nonzero, unless mean_c equals base_c, when both are
\* zero; and cdd - hdd = mean_c - base_c.
C18_DegreeDaysSignIdentity ==
    (mDD # <<>> /\ mMean.tag = "num" /\ mBase.tag = "num") =>
        LET cdd == mDD[1][1]
            hdd == mDD[1][2]
        IN /\ cdd.tag = "num" /\ hdd.tag = "num"
           /\ cdd.val >= 0 /\ hdd.val >= 0
           /\ mMean.val = mBase.val => cdd.val = 0 /\ hdd.val = 0
           /\ mMean.val # mBase.val => (cdd.val = 0) # (hdd.val = 0)
           /\ cdd.val - hdd.val = mMean.val - mBase.val

\* 17.99 C against the base 18.0: hdd is 0.01 and cdd is 0
C18_Witness ==
    /\ mMean = Num(1799) /\ mBase = Num(DefaultBase)
    /\ mDD = << <<Num(0), Num(1)>> >>

\* C19: calculate_degree_days and calculate_uhi_index never raise and a NaN
\* input gives a NaN output: for mean_c = NaN both cdd and hdd are NaN, for
\* urban_temp = NaN the index is NaN.
C19_NaNPropagates ==
    mMean = NaN =>
        /\ mDD # <<>> => mDD[1] = <<NaN, NaN>>
        /\ mUhi # <<>> => mUhi[1] = NaN

\* C21: calculate_anomaly_zscore gives one output per input, aligned by
\* position, and is causal: the z-score at i depends only on the values in
\* the trailing window ending at i, so a change at a position after i (or
\* before the window) leaves the output at i as it was.
C21_ZscoreCausal ==
    zPc = "done" =>
        /\ Len(zOut) = Len(zCol)
        /\ \A i \in 1..Len(zCol) : zCol[i].tag # "num" => zOut[i] = NaN
        /\ zChanged > 0 =>
              /\ Len(zPrev) = Len(zCol)
              /\ \A i \in 1..Len(zCol) :
                    (zChanged > i \/ zChanged < WindowStart(i, zWin))
                        => zOut[i] = zPrev[i]

\* the last of three readings changed: its z-score changed, the z-score of
\* the second, a number other than 0, did not
C21_Witness ==
    /\ zPc = "done" /\ Len(zCol) = 3 /\ zChanged = 3
    /\ zOut[3] # zPrev[3]
    /\ zOut[2] = zPrev[2] /\ zOut[2].tag = "num" /\ zOut[2].val # 0
    /\ zOut[1] = zPrev[1]

\* C20: for a series whose lst_mean_c values are all equal,
\* calculate_anomaly_zscore returns 0 at every position, the first included.
C20_ConstantSeriesIsZero ==
    (/\ zPc = "done"
     /\ \A i \in 1..Len(zCol) : zCol[i].tag = "num" /\ zCol[i] = zCol[1])
    => \A i \in 1..Len(zCol) : zOut[i] = Num(0)

\* the same for the positions after the first
C20_ZeroAfterFirst ==
    (/\ zPc = "done"
     /\ \A i \in 1..Len(zCol) : zCol[i].tag = "num" /\ zCol[i] = zCol[1])
    => \A i \in 2..Len(zCol) : zOut[i] = Num(0)

(***************************************************************************)
(* Claims on prepare_bronze_granules                                       *)
(***************************************************************************)
\* the regions of the argument whose input is good: an object payload with
\* at least one entry and no time_start that cannot be parsed
GoodRegions ==
    SelectSeq(pArg, LAMBDA e : /\ e.result.kind = "object"
                               /\ e.result.granules # <<>>
                               /\ ~ToDatetimeRaises(e.result.granules))

\* C23: prepare_bronze_granules drops every raw entry that lacks a granule
\* id or a time_start: the call is not aborted by such an entry and no
\* output record has a null granule_id or a null time_start.
C23_NoNullIdOrTimeStart ==
    (/\ pOut # Pending
     /\ \A k \in 1..Len(pArg) : pArg[k].result.kind # "not_object"
     /\ \A k \in 1..Len(pArg) : ~ToDatetimeRaises(pArg[k].result.granules))
    => /\ pOut.outcome = "returned"
       /\ \A k \in 1..Len(pOut.bronze_data) :
             \A i \in 1..Len(pOut.bronze_data[k].table) :
                LET r == pOut.bronze_data[k].table[i]
                IN r.granule_id.tag # "none" /\ r.time_start.tag # "none"

\* C24: prepare_bronze_granules never raises because of one region's input:
\* a region that is not successful, has no file path, an unreadable or
\* malformed file (a payload that is no object, a time_start that cannot be
\* parsed) or no granules is omitted, and the tables of all other regions
\* are produced.
C24_NeverRaises ==
    pOut # Pending =>
        /\ pOut.outcome = "returned"
        /\ Len(pOut.bronze_data) = Len(GoodRegions)
        /\ \A k \in 1..Len(GoodRegions) :
              pOut.bronze_data[k].key = GoodRegions[k].key

\* C25: every table produced by prepare_bronze_granules is sorted ascending
\* by date, records of the same date by granule_id, whatever the order of
\* the entries in the payload.
C25_SortedByDateThenId ==
    (pOut # Pending /\ pOut.outcome = "returned") =>
        \A k \in 1..Len(pOut.bronze_data) :
            LET t == pOut.bronze_data[k].table
            IN \A i, j \in 1..Len(t) :
                  (/\ i < j
                   /\ t[i].date.tag = "date" /\ t[j].date.tag = "date"
                   /\ t[i].granule_id.tag = "id" /\ t[j].granule_id.tag = "id")
                  => \/ t[i].date.day < t[j].date.day
                     \/ /\ t[i].date.day = t[j].date.day
                        /\ t[i].granule_id.val <= t[j].granule_id.val

(***************************************************************************)
(* Claims on aggregate_region_metrics                                      *)
(***************************************************************************)
\* C26: for each region aggregate_region_metrics emits the metrics sorted
\* ascending by date and a kpi_summary in which ytd.heatwave_days is the
\* number of records of the series with heatwave_flag 1, ytd.max_uhi_index
\* is the maximum uhi_index of the series, and today is taken from a record
\* with the latest date.
C26_SortedMetricsAndKpi ==
    gOut # Pending =>
        /\ gOut.outcome = "returned"
        /\ Len(gOut.aggregated_metrics) = Len(gArg)
        /\ \A k \in 1..Len(gArg) :
              LET df == gArg[k].df
                  e == gOut.aggregated_metrics[k]
                  uhis == {df[i].uhi_index.val : i \in {j \in 1..Len(df) : df[j].uhi_index.tag = "num"}}
              IN /\ e.key = gArg[k].key
                 /\ Len(e.metrics) = Len(df)
                 /\ \A i \in 1..(Len(df) - 1) : e.metrics[i].date <= e.metrics[i + 1].date
                 /\ \A r \in GoldRecords :
                       Cardinality({i \in 1..Len(df) : e.metrics[i] = MetricOf(r)})
                           = Cardinality({i \in 1..Len(df) : MetricOf(df[i]) = MetricOf(r)})
                 /\ e.kpi_summary.ytd.heatwave_days
                       = Cardinality({i \in 1..Len(df) : df[i].heatwave_flag = 1})
                 /\ IF uhis = {} THEN e.kpi_summary.ytd.max_uhi_index = NaN
                    ELSE /\ e.kpi_summary.ytd.max_uhi_index.tag = "num"
                         /\ e.kpi_summary.ytd.max_uhi_index.val \in uhis
                         /\ \A u \in uhis : u <= e.kpi_summary.ytd.max_uhi_index.val
                 /\ \E i \in 1..Len(df) :
                       /\ \A j \in 1..Len(df) : df[j].date <= df[i].date
                       /\ e.kpi_summary.today.lst_mean_c = df[i].lst_mean_c
                       /\ e.kpi_summary.today.cdd = df[i].cdd
                       /\ e.kpi_summary.today.hdd = df[i].hdd
                       /\ e.kpi_summary.today.anomaly_zscore = NotnaOrZero(df[i].anomaly_zscore)

\* a series loaded as (day 3: 35.0, flag 1), (day 1: failed), (day 2: 15.0):
\* the metrics come out in date order, one heatwave day, the maximum index
\* is that of day 3 and today is day 3
C26_Witness ==
    /\ gOut # Pending /\ Len(gArg) = 1
    /\ gArg[1].df = <<GoldRecord(3, Num(3500), 1), GoldRecord(1, NaN, 0), GoldRecord(2, Num(1500), 0)>>
    /\ gOut.aggregated_metrics[1].kpi_summary.ytd.heatwave_days = 1
    /\ gOut.aggregated_metrics[1].kpi_summary.ytd.max_uhi_index = Num(1500)
    /\ gOut.aggregated_metrics[1].kpi_summary.today.lst_mean_c = Num(3500)
    /\ gOut.aggregated_metrics[1].metrics[1].date = 1 /\ gOut.aggregated_metrics[1].metrics[3].date = 3

(***************************************************************************)
(* Claims on GET /v1/metrics                                               *)
(***************************************************************************)
\* C27: a GET /v1/metrics request that omits any one of region_id,
\* from_date or to_date is rejected with HTTP 422 and returns no metrics.
C27_MissingParamIs422 ==
    (/\ aResp # Pending
     /\ ~(aReq.region_id.present /\ aReq.from_date.present /\ aReq.to_date.present))
    => aResp.status = 422 /\ aResp.metrics = <<>>

\* the part of it that holds: a request without region_id is rejected
C27_MissingRegionIs422 ==
    (aResp # Pending /\ ~aReq.region_id.present)
    => aResp.status = 422 /\ aResp.metrics = <<>>

(***************************************************************************)
(* Claims on the heatwave flags of process_region_granules                 *)
(***************************************************************************)
\* C28: a heatwave_flag of 1 on a record emitted by process_region_granules
\* implies that the region has consecutive_days consecutive calendar days,
\* ending at the date of the record, each with a record whose lst_mean_c is
\* at or above the threshold; records of one date, or records separated by
\* missing dates, do not count as consecutive days.
C28_FlagMeansCalendarDays ==
    sPc = "done" =>
        \A k \in 1..Len(sOut) :
            LET t == sOut[k].table
            IN \A i \in 1..Len(t) :
                  t[i].heatwave_flag = 1 =>
                      \A d \in (t[i].date - DefaultDays + 1)..t[i].date :
                          \E j \in 1..Len(t) :
                              /\ t[j].date = d
                              /\ AtOrAbove(t[j].lst_mean_c, DefaultThreshold)

(***************************************************************************)
(* Claims on download_granule                                              *)
(***************************************************************************)
\* C29: download_granule returns a path only for a file whose content was
\* written completely: after a download that failed midway, a later call
\* for the same granule downloads again or returns None and never reports
\* the leftover file as downloaded.
C29_PathMeansCompleteFile ==
    (dRet # Pending /\ dRet.returned = "path")
    => dFiles[dRet.granule_id] = FileWith(FileChunks)

\* the part of it that holds: a call that returns None has left no complete
\* file behind, and a request error leaves the directory as it was
C29_NoneMeansNoCompleteFile ==
    (dRet # Pending /\ dRet.returned = "None")
    => dFiles[dRet.granule_id] # FileWith(FileChunks)

(***************************************************************************)
(* Claims on get_lst_data and the discovery of a region                    *)
(***************************************************************************)
NothingFound ==
    /\ \A p \in DOMAIN cSearch : cSearch[p] = <<>>
    /\ cExpanded = <<>>

\* C30: when no search (the requested product, every fallback product, the
\* expanded bounding box) returns a granule, get_lst_data does not raise: it
\* returns product None and an empty granules list, and the discovery
\* records the region with status 'success' and a file without granules,
\* which the bronze stage skips as a region with no granules.
C30_NothingFoundIsSuccess ==
    (cResult # Pending /\ NothingFound) =>
        /\ cLst.outcome = "returned"
        /\ cLst.product = NoProduct /\ cLst.granules = <<>>
        /\ cResult.entry.status = "success"
        /\ cResult.entry.file = <<[product |-> NoProduct, granules |-> <<>>]>>

\* when a search finds a granule the region is recorded with status
\* 'success' and the granules of one search
C30_FoundIsSuccess ==
    (cResult # Pending /\ ~NothingFound) =>
        /\ cLst.outcome = "returned" /\ cLst.granules # <<>>
        /\ cLst.granules \in {cSearch[p] : p \in DOMAIN cSearch} \cup {cExpanded}
        /\ cResult.entry.status = "success"
====
